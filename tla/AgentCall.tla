------------------------------ MODULE AgentCall ------------------------------
(***************************************************************************)
(* One agent's model call: attempt() of run_investigator / run_baseline    *)
(* (app/agents), made through TracedLLMClient (app/observability.py) and   *)
(* under call_with_retry (app/retry.py).                                   *)
(*                                                                         *)
(* Each step of the tracing SDK may fail; _safely swallows the failure.    *)
(* The model's answer is one of Answers, chosen by the provider.           *)
(***************************************************************************)
EXTENDS Naturals, Sequences, FiniteSets

CONSTANTS
  MaxAttempts,   \* bound: values of max_attempts
  BaseDelay,     \* base_delay_s
  MaxDelay       \* max_delay_s

ASSUME RetryAssumption ==
  MaxAttempts \in Nat /\ BaseDelay \in Nat \ {0} /\ MaxDelay \in Nat \ {0}

VARIABLES
  max_attempts, attempt, slept, pc, result,  \* of call_with_retry
  answers,  \* the provider's answers so far, in order
  tracing,  \* a Langfuse client is configured
  trace,    \* the current observation: "none", "real" or "noop"
  started,  \* observations started at Langfuse
  ended,    \* observations end() has ended
  lost      \* observations end() failed on: they stay open at Langfuse

retryVars == << max_attempts, attempt, slept, result >>
traceVars == << tracing, trace, started, ended, lost >>
vars      == << retryVars, pc, answers, traceVars >>

\* A valid tool call; a tool call that breaks FINDINGS_INPUT_SCHEMA; an error
\* is_retryable accepts; any other error, a response without tool_use included.
Answers == {"valid", "invalid", "retryable", "fatal"}

\* What attempt() makes of an answer: InvalidAgentOutputError is no retryable
\* error.
AsOutcome(a) ==
  CASE a = "valid"                -> "value"
    [] a = "retryable"            -> "retryable"
    [] a \in {"invalid", "fatal"} -> "fatal"

AnswerSeen == pc \in {"answered", "traced"}

\* An answer counts as the outcome of its attempt once attempt() has ended.
DecidedAnswers ==
  IF AnswerSeen THEN SubSeq(answers, 1, Len(answers) - 1) ELSE answers

Retry == INSTANCE RetryPolicy
  WITH outcomes <- [i \in DOMAIN DecidedAnswers |-> AsOutcome(DecidedAnswers[i])],
       pc <- IF pc \in {"asking", "answered", "traced"} THEN "calling" ELSE pc

Init ==
  /\ max_attempts \in 0 .. MaxAttempts
  /\ attempt = 0 /\ slept = << >> /\ answers = << >>
  /\ pc = "start" /\ result = "none"
  /\ tracing \in BOOLEAN /\ trace = "none" /\ started = 0
  /\ ended = 0 /\ lost = 0

\* run_investigator makes no call at all when build_context leaves no
\* document; that is the caller's business and not a step of this module.
Start ==
  /\ pc = "start"
  /\ IF max_attempts < 1
     THEN pc' = "done" /\ result' = "rejected"
     ELSE pc' = "calling" /\ UNCHANGED result
  /\ UNCHANGED << max_attempts, attempt, slept, answers, traceVars >>

\* _start_generation: a real observation, a no-op one when starting it failed,
\* none when tracing is off.
StartGeneration ==
  /\ pc = "calling"
  /\ \/ ~ tracing /\ UNCHANGED << trace, started >>
     \/ tracing /\ trace' = "real" /\ started' = started + 1
     \/ tracing /\ trace' = "noop" /\ UNCHANGED started
  /\ pc' = "asking"
  /\ UNCHANGED << retryVars, answers, tracing, ended, lost >>

\* inner.call_with_forced_tool returns or raises.
Answer(a) ==
  /\ pc = "asking"
  /\ answers' = Append(answers, a)
  /\ pc' = "answered"
  /\ UNCHANGED << retryVars, traceVars >>

EndObservation ==
  \/ trace # "real" /\ UNCHANGED << ended, lost >>
  \/ trace = "real" /\ ended' = ended + 1 /\ UNCHANGED lost
  \/ trace = "real" /\ lost' = lost + 1 /\ UNCHANGED ended

\* Wrong on purpose: one _safely around update() and end().
EndGenerationUnlessUpdateFails ==
  /\ pc = "answered"
  /\ EndObservation \/ UNCHANGED << ended, lost >>
  /\ trace' = "none"
  /\ pc' = "traced"
  /\ UNCHANGED << retryVars, answers, tracing, started >>

\* update() and end(), on both paths, each under a _safely of its own: a
\* failing update() does not keep end() from being called, and end() may fail
\* too.  Then the result is returned or the exception re-raised.
EndGeneration ==
  /\ pc = "answered"
  /\ EndObservation
  /\ trace' = "none"
  /\ pc' = "traced"
  /\ UNCHANGED << retryVars, answers, tracing, started >>

LastAnswer == answers[Len(answers)]

Finish(r) ==
  /\ result' = r
  /\ pc' = "done"
  /\ UNCHANGED << max_attempts, attempt, slept, answers, traceVars >>

Return == pc = "traced" /\ LastAnswer = "valid" /\ Finish("returned")

\* The validation error, or the provider's own, goes to the caller at once.
Raise == pc = "traced" /\ LastAnswer \in {"invalid", "fatal"} /\ Finish("raised")

Exhaust ==
  /\ pc = "traced" /\ LastAnswer = "retryable" /\ attempt = max_attempts - 1
  /\ Finish("exhausted")

\* Wrong on purpose: invalid output is retried like a provider's error.
BackOffOnInvalid(delay) ==
  /\ pc = "traced" /\ LastAnswer \in {"retryable", "invalid"}
  /\ attempt < max_attempts - 1
  /\ slept' = Append(slept, delay)
  /\ pc' = "sleeping"
  /\ UNCHANGED << max_attempts, attempt, result, answers, traceVars >>

\* Wrong on purpose: one attempt too many.
BackOffOnceMore(delay) ==
  /\ pc = "traced" /\ LastAnswer = "retryable" /\ attempt < max_attempts
  /\ slept' = Append(slept, delay)
  /\ pc' = "sleeping"
  /\ UNCHANGED << max_attempts, attempt, result, answers, traceVars >>

BackOff(delay) ==
  /\ pc = "traced" /\ LastAnswer = "retryable" /\ attempt < max_attempts - 1
  /\ slept' = Append(slept, delay)
  /\ pc' = "sleeping"
  /\ UNCHANGED << max_attempts, attempt, result, answers, traceVars >>

Wake ==
  /\ pc = "sleeping"
  /\ attempt' = attempt + 1
  /\ pc' = "calling"
  /\ UNCHANGED << max_attempts, slept, result, answers, traceVars >>

Next ==
  \/ Start \/ StartGeneration \/ EndGeneration
  \/ \E a \in Answers : Answer(a)
  \/ Return \/ Raise \/ Exhaust \/ Wake
  \/ \E delay \in 0 .. Retry!Backoff(attempt) - 1 : BackOff(delay)

Spec     == Init /\ [][Next]_vars
FairSpec == Spec /\ WF_vars(Next)

-----------------------------------------------------------------------------
\* "Tracing must never break the traced operation": with any mix of tracing
\* failures the agent's call still is a call_with_retry of the bare client's
\* answers, and ends.
ImplementsRetryPolicy == Retry!FairSpec

\* What call_with_retry promises (see RetryPolicy), of a real agent's call:
\* bounded attempts, only a retryable failure followed by another call, and an
\* error or value that is what the last attempt said.
OutcomeIsJustified == Retry!OutcomeIsJustified

\* Before the next attempt and before the caller goes on, end() has been called
\* exactly once on every observation that was started, on the error path and
\* after a failed update() too: one stays open at Langfuse only because end()
\* itself failed on it.
EveryObservationEnded ==
  pc \notin {"asking", "answered"} => started = ended + lost
=============================================================================
