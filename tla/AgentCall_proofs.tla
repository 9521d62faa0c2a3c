--------------------------- MODULE AgentCall_proofs ---------------------------
(***************************************************************************)
(* Proofs about AgentCall for any number of attempts, delays and tracing   *)
(* failures.                                                               *)
(*                                                                         *)
(* What the caller is told follows from how many answers there are at each *)
(* point of the loop and from all but the last being retryable failures    *)
(* (Progress).  The observations balance because the one in hand is real   *)
(* exactly while end() has been called on all but one (Balance).           *)
(***************************************************************************)
EXTENDS AgentCall, TLAPS

Typed ==
  /\ max_attempts \in Nat /\ attempt \in Nat /\ answers \in Seq(Answers)
  /\ pc \in {"start", "calling", "asking", "answered", "traced", "sleeping", "done"}
  /\ started \in Nat /\ ended \in Nat /\ lost \in Nat

AllRetryable(n) == \A i \in 1 .. n : answers[i] = "retryable"

Progress ==
  LET n == Len(answers) IN
  /\ pc # "done" => result = "none"
  /\ pc = "start" => n = 0 /\ attempt = 0
  /\ pc \in {"calling", "asking"} =>
       n = attempt /\ attempt < max_attempts /\ AllRetryable(n)
  /\ AnswerSeen => n = attempt + 1 /\ attempt < max_attempts /\ AllRetryable(n - 1)
  /\ pc = "sleeping" => n = attempt + 1 /\ n < max_attempts /\ AllRetryable(n)

Ending ==
  LET n == Len(answers) IN
  pc = "done" =>
    \/ result = "rejected" /\ n = 0 /\ max_attempts = 0
    \/ /\ 0 < n /\ n <= max_attempts /\ AllRetryable(n - 1)
       /\ \/ result = "returned" /\ answers[n] = "valid"
          \/ result = "raised" /\ answers[n] \in {"invalid", "fatal"}
          \/ result = "exhausted" /\ n = max_attempts /\ answers[n] = "retryable"

Balance ==
  /\ pc \notin {"asking", "answered"} => trace = "none"
  /\ started = IF trace = "real" THEN ended + lost + 1 ELSE ended + lost

IInv == Typed /\ Progress /\ Ending /\ Balance

-----------------------------------------------------------------------------
LEMMA InitIInv == Init => IInv
  BY RetryAssumption
  DEF Init, IInv, Typed, Progress, Ending, Balance, AnswerSeen, AllRetryable

LEMMA AnswerKeepsIInv ==
  ASSUME IInv, NEW a \in Answers, Answer(a)
  PROVE  IInv'
<1>1. answers \in Seq(Answers) /\ answers' = Append(answers, a) /\ pc = "asking"
      /\ pc' = "answered"
  BY DEF IInv, Typed, Answer
<1>2. /\ answers' \in Seq(Answers) /\ Len(answers') = Len(answers) + 1
      /\ \A i \in 1 .. Len(answers) : answers'[i] = answers[i]
      /\ Len(answers) \in Nat
  BY <1>1
<1>3. Typed' /\ Balance'
  BY <1>1, <1>2 DEF IInv, Typed, Balance, Answer, retryVars, traceVars
<1>4. Progress' /\ Ending'
  BY <1>1, <1>2
  DEF IInv, Typed, Progress, Ending, AllRetryable, AnswerSeen, Answer, retryVars, traceVars
<1> QED
  BY <1>3, <1>4 DEF IInv

\* The other steps leave the answers alone.
LEMMA OtherStepsKeepIInv ==
  ASSUME IInv,
         \/ Start \/ StartGeneration \/ EndGeneration
         \/ Return \/ Raise \/ Exhaust \/ Wake
         \/ \E delay : BackOff(delay)
         \/ UNCHANGED vars
  PROVE  IInv'
<1> USE DEF IInv, Typed, Progress, Ending, Balance, AnswerSeen, AllRetryable
<1>1. CASE Start
  BY <1>1 DEF Start, traceVars
<1>2. CASE StartGeneration
  BY <1>2 DEF StartGeneration, retryVars
<1>3. CASE EndGeneration
  BY <1>3 DEF EndGeneration, EndObservation, retryVars
<1>4. CASE Return
  BY <1>4 DEF Return, Finish, LastAnswer, traceVars
<1>5. CASE Raise
  BY <1>5 DEF Raise, Finish, LastAnswer, traceVars
<1>6. CASE Exhaust
  BY <1>6 DEF Exhaust, Finish, LastAnswer, traceVars
<1>7. CASE Wake
  BY <1>7 DEF Wake, traceVars
<1>8. ASSUME NEW delay, BackOff(delay) PROVE IInv'
  BY <1>8 DEF BackOff, LastAnswer, traceVars
<1>9. CASE UNCHANGED vars
  BY <1>9 DEF vars, retryVars, traceVars
<1> QED
  BY <1>1, <1>2, <1>3, <1>4, <1>5, <1>6, <1>7, <1>8, <1>9

\* What is known of the answers holds at every point of the loop.
THEOREM Inductive == Spec => []IInv
<1>1. IInv /\ [Next]_vars => IInv'
  BY AnswerKeepsIInv, OtherStepsKeepIInv DEF Next
<1> QED
  BY <1>1, InitIInv, PTL DEF Spec

\* end() is called exactly once on every observation, whichever calls of the
\* tracing SDK fail, end() itself included.
THEOREM ObservationsEnd == Spec => []EveryObservationEnded
<1>1. IInv => EveryObservationEnded
  BY DEF IInv, Balance, EveryObservationEnded
<1> QED
  BY <1>1, Inductive, PTL

-----------------------------------------------------------------------------
\* The outcomes of the abstract call.
Outcomes == [i \in DOMAIN DecidedAnswers |-> AsOutcome(DecidedAnswers[i])]

LEMMA OutcomesFollow ==
  ASSUME IInv
  PROVE  LET n == IF AnswerSeen THEN Len(answers) - 1 ELSE Len(answers) IN
         /\ n \in Nat /\ Len(Outcomes) = n
         /\ \A i \in 1 .. n : Outcomes[i] = AsOutcome(answers[i])
<1> DEFINE n == IF AnswerSeen THEN Len(answers) - 1 ELSE Len(answers)
<1>1. n \in Nat /\ answers \in Seq(Answers)
  BY DEF IInv, Typed, Progress
<1>2. /\ DOMAIN DecidedAnswers = 1 .. n
      /\ \A i \in 1 .. n : DecidedAnswers[i] = answers[i]
  BY <1>1 DEF DecidedAnswers
<1>3. Outcomes = [i \in 1 .. n |-> AsOutcome(answers[i])]
  BY <1>2 DEF Outcomes
<1> HIDE DEF n
<1>4. Len(Outcomes) = n /\ \A i \in 1 .. n : Outcomes[i] = AsOutcome(answers[i])
  BY <1>1, <1>3
<1> QED
  BY <1>1, <1>4 DEF n

\* call_with_retry keeps its promise to the agent: at most max_attempts calls,
\* another call only after a retryable failure, and an ending that is what the
\* last call said.
THEOREM OutcomeHolds == Spec => []OutcomeIsJustified
<1>1. ASSUME IInv PROVE OutcomeIsJustified
  <2> DEFINE n == Len(Outcomes)
  <2>1. OutcomeIsJustified <=>
          /\ n <= max_attempts
          /\ \A i \in 1 .. n - 1 : Outcomes[i] = "retryable"
          /\ result = "none"      => \A i \in 1 .. n : Outcomes[i] = "retryable"
          /\ result = "rejected"  => n = 0 /\ max_attempts = 0
          /\ result = "returned"  => n > 0 /\ Outcomes[n] = "value"
          /\ result = "raised"    => n > 0 /\ Outcomes[n] = "fatal"
          /\ result = "exhausted" => n = max_attempts /\ n > 0 /\ Outcomes[n] = "retryable"
    BY DEF OutcomeIsJustified, Retry!OutcomeIsJustified, Outcomes
  <2>2. /\ AsOutcome("valid") = "value" /\ AsOutcome("retryable") = "retryable"
        /\ AsOutcome("invalid") = "fatal" /\ AsOutcome("fatal") = "fatal"
    BY DEF AsOutcome
  <2>3. CASE pc # "done"
    <3>1. /\ result = "none" /\ n \in Nat /\ n <= max_attempts
          /\ \A i \in 1 .. n : Outcomes[i] = "retryable"
      BY <1>1, <2>2, <2>3, OutcomesFollow
      DEF IInv, Typed, Progress, AnswerSeen, AllRetryable
    <3> QED
      BY <2>1, <3>1
  <2>4. CASE pc = "done"
    <3>1. /\ n = Len(answers) /\ n \in Nat
          /\ \A i \in 1 .. n : Outcomes[i] = AsOutcome(answers[i])
      BY <1>1, <2>4, OutcomesFollow DEF AnswerSeen
    <3> HIDE DEF n
    <3> QED
      BY <1>1, <2>1, <2>2, <2>4, <3>1 DEF IInv, Typed, Ending, AllRetryable
  <2> QED
    BY <2>3, <2>4
<1> QED
  BY <1>1, Inductive, PTL

-----------------------------------------------------------------------------
\* The variables of the abstract call.
AbstractPc == IF pc \in {"asking", "answered", "traced"} THEN "calling" ELSE pc

LEMMA AbstractState ==
  /\ Retry!vars = << max_attempts, attempt, Outcomes, slept, AbstractPc, result >>
  /\ Retry!Init <=> /\ max_attempts \in 0 .. MaxAttempts
                    /\ attempt = 0 /\ Outcomes = << >> /\ slept = << >>
                    /\ AbstractPc = "start" /\ result = "none"
  BY DEF Retry!vars, Retry!Init, Outcomes, AbstractPc

LEMMA AbstractSteps ==
  /\ Retry!Start <=>
       /\ AbstractPc = "start"
       /\ IF max_attempts < 1
          THEN AbstractPc' = "done" /\ result' = "rejected"
          ELSE AbstractPc' = "calling" /\ UNCHANGED result
       /\ UNCHANGED << max_attempts, attempt, Outcomes, slept >>
  /\ \A outcome, r : Retry!Finish(outcome, r) <=>
       /\ AbstractPc' = "done" /\ result' = r
       /\ Outcomes' = Append(Outcomes, outcome)
       /\ UNCHANGED << max_attempts, attempt, slept >>
  /\ Retry!Return <=> AbstractPc = "calling" /\ Retry!Finish("value", "returned")
  /\ Retry!Raise <=> AbstractPc = "calling" /\ Retry!Finish("fatal", "raised")
  /\ Retry!Exhaust <=> /\ AbstractPc = "calling" /\ attempt = max_attempts - 1
                       /\ Retry!Finish("retryable", "exhausted")
  /\ \A delay : Retry!BackOff(delay) <=>
       /\ AbstractPc = "calling" /\ attempt < max_attempts - 1
       /\ Outcomes' = Append(Outcomes, "retryable")
       /\ slept' = Append(slept, delay)
       /\ AbstractPc' = "sleeping"
       /\ UNCHANGED << max_attempts, attempt, result >>
  /\ Retry!Wake <=>
       /\ AbstractPc = "sleeping" /\ attempt' = attempt + 1 /\ AbstractPc' = "calling"
       /\ UNCHANGED << max_attempts, Outcomes, slept, result >>
  BY DEF Retry!Start, Retry!Finish, Retry!Return, Retry!Raise, Retry!Exhaust,
     Retry!BackOff, Retry!Wake, Outcomes, AbstractPc

\* The answer of an attempt is its outcome once attempt() has ended, and not
\* before.
LEMMA OutcomesMove ==
  ASSUME Typed, Typed', Progress
  PROVE  /\ AnswerSeen /\ ~ AnswerSeen' /\ UNCHANGED answers =>
              Outcomes' = Append(Outcomes, AsOutcome(LastAnswer))
         /\ (AnswerSeen <=> AnswerSeen') /\ UNCHANGED answers => UNCHANGED Outcomes
         /\ \A a : ~ AnswerSeen /\ AnswerSeen' /\ answers' = Append(answers, a)
              => UNCHANGED Outcomes
<1>1. ASSUME AnswerSeen, ~ AnswerSeen', UNCHANGED answers
      PROVE  Outcomes' = Append(Outcomes, AsOutcome(LastAnswer))
  <2> DEFINE n == Len(answers) - 1
  <2>1. n \in Nat /\ answers \in Seq(Answers)
    BY <1>1 DEF Typed, Progress
  <2>2. Outcomes = [i \in 1 .. n |-> AsOutcome(answers[i])]
    <3>1. DOMAIN DecidedAnswers = 1 .. n /\ \A i \in 1 .. n : DecidedAnswers[i] = answers[i]
      BY <1>1, <2>1 DEF DecidedAnswers
    <3> QED
      BY <3>1 DEF Outcomes
  <2>3. Outcomes' = [i \in 1 .. n + 1 |-> AsOutcome(answers[i])]
    <3>1. DecidedAnswers' = answers /\ DOMAIN answers = 1 .. n + 1
      BY <1>1, <2>1 DEF DecidedAnswers
    <3> QED
      BY <3>1 DEF Outcomes
  <2>4. LastAnswer = answers[n + 1]
    BY <2>1 DEF LastAnswer
  <2> HIDE DEF n
  <2> QED
    BY <2>1, <2>2, <2>3, <2>4
<1>2. ASSUME AnswerSeen <=> AnswerSeen', UNCHANGED answers PROVE UNCHANGED Outcomes
  BY <1>2 DEF Outcomes, DecidedAnswers
<1>3. ASSUME NEW a, ~ AnswerSeen, AnswerSeen', answers' = Append(answers, a)
      PROVE  UNCHANGED Outcomes
  <2>1. answers \in Seq(Answers) /\ answers' \in Seq(Answers)
    BY DEF Typed
  <2>2. SubSeq(answers', 1, Len(answers') - 1) = answers
    BY <1>3, <2>1
  <2>3. DecidedAnswers' = DecidedAnswers
    BY <1>3, <2>2 DEF DecidedAnswers
  <2> QED
    BY <2>3 DEF Outcomes
<1> QED
  BY <1>1, <1>2, <1>3

\* Every step of the call is a step of call_with_retry on the bare client, or
\* none of its business.
LEMMA StepRetries ==
  ASSUME IInv, IInv', [Next]_vars
  PROVE  Retry!Next \/ UNCHANGED << max_attempts, attempt, Outcomes, slept, AbstractPc, result >>
<1>1. /\ AsOutcome("valid") = "value" /\ AsOutcome("retryable") = "retryable"
      /\ AsOutcome("invalid") = "fatal" /\ AsOutcome("fatal") = "fatal"
  BY DEF AsOutcome
<1>2. Typed /\ Typed' /\ Progress
  BY DEF IInv
<1>3. CASE Start
  <2>1. UNCHANGED Outcomes
    BY <1>2, <1>3, OutcomesMove DEF Start, AnswerSeen
  <2>2. Retry!Start
    BY <1>3, <2>1, AbstractSteps DEF Start, AbstractPc
  <2> QED
    BY <2>2 DEF Retry!Next
<1>4. CASE StartGeneration
  <2>1. UNCHANGED Outcomes
    BY <1>2, <1>4, OutcomesMove DEF StartGeneration, AnswerSeen
  <2> QED
    BY <1>4, <2>1 DEF StartGeneration, AbstractPc, retryVars
<1>5. ASSUME NEW a \in Answers, Answer(a)
      PROVE  UNCHANGED << max_attempts, attempt, Outcomes, slept, AbstractPc, result >>
  <2>1. UNCHANGED Outcomes
    BY <1>2, <1>5, OutcomesMove DEF Answer, AnswerSeen
  <2> QED
    BY <1>5, <2>1 DEF Answer, AbstractPc, retryVars
<1>6. CASE EndGeneration
  <2>1. UNCHANGED Outcomes
    BY <1>2, <1>6, OutcomesMove DEF EndGeneration, AnswerSeen
  <2> QED
    BY <1>6, <2>1 DEF EndGeneration, AbstractPc, retryVars
<1>7. ASSUME NEW r, pc = "traced", Finish(r)
      PROVE  Retry!Finish(AsOutcome(LastAnswer), r) /\ AbstractPc = "calling"
  <2>1. Outcomes' = Append(Outcomes, AsOutcome(LastAnswer))
    BY <1>2, <1>7, OutcomesMove DEF Finish, AnswerSeen
  <2> QED
    BY <1>7, <2>1, AbstractSteps DEF Finish, AbstractPc
<1>8. CASE Return
  <2>1. Retry!Return
    BY <1>1, <1>7, <1>8, AbstractSteps DEF Return
  <2> QED
    BY <2>1 DEF Retry!Next
<1>9. CASE Raise
  <2>1. Retry!Raise
    BY <1>1, <1>7, <1>9, AbstractSteps DEF Raise
  <2> QED
    BY <2>1 DEF Retry!Next
<1>10. CASE Exhaust
  <2>1. Retry!Exhaust
    BY <1>1, <1>7, <1>10, AbstractSteps DEF Exhaust
  <2> QED
    BY <2>1 DEF Retry!Next
<1>11. ASSUME NEW delay \in 0 .. Retry!Backoff(attempt) - 1, BackOff(delay)
       PROVE  Retry!Next
  <2>1. Outcomes' = Append(Outcomes, "retryable")
    BY <1>1, <1>2, <1>11, OutcomesMove DEF BackOff, AnswerSeen
  <2>2. Retry!BackOff(delay)
    BY <1>11, <2>1, AbstractSteps DEF BackOff, AbstractPc
  <2> QED
    BY <2>2 DEF Retry!Next
<1>12. CASE Wake
  <2>1. UNCHANGED Outcomes
    BY <1>2, <1>12, OutcomesMove DEF Wake, AnswerSeen
  <2>2. Retry!Wake
    BY <1>12, <2>1, AbstractSteps DEF Wake, AbstractPc
  <2> QED
    BY <2>2 DEF Retry!Next
<1>13. CASE UNCHANGED vars
  BY <1>13 DEF vars, retryVars, Outcomes, DecidedAnswers, AnswerSeen, AbstractPc
<1> QED
  BY <1>3, <1>4, <1>5, <1>6, <1>8, <1>9, <1>10, <1>11, <1>12, <1>13 DEF Next

\* Tracing never breaks the traced operation: whichever of its calls fail, the
\* agent's call does what call_with_retry does with the bare client's answers.
THEOREM RetryRefinement == Spec => Retry!Spec
<1>1. Init => Retry!Init
  <2> SUFFICES ASSUME Init PROVE Retry!Init
    OBVIOUS
  <2>1. DecidedAnswers = << >>
    BY DEF Init, DecidedAnswers, AnswerSeen
  <2>2. Outcomes = << >>
    BY <2>1 DEF Outcomes
  <2> QED
    BY <2>2, AbstractState DEF Init, AbstractPc
<1>2. IInv /\ IInv' /\ [Next]_vars => [Retry!Next]_(Retry!vars)
  <2>1. UNCHANGED << max_attempts, attempt, Outcomes, slept, AbstractPc, result >>
          => UNCHANGED Retry!vars
    BY DEF Retry!vars, Outcomes, AbstractPc
  <2> QED
    BY <2>1, StepRetries
<1> QED
  BY <1>1, <1>2, Inductive, PTL DEF Spec, Retry!Spec
=============================================================================
