----------------------------- MODULE EvalRunner ------------------------------
(***************************************************************************)
(* The evaluation runners eval/run_baseline.py, run_investigators.py and   *)
(* run_reconciliation.py: one loop over the cases, checking the budget     *)
(* before each, making the paid calls of the case, adding up what it       *)
(* thinks they cost and writing one results file at the end.               *)
(*                                                                         *)
(* The runners differ in the calls of a case and in whether a call that    *)
(* fails is caught (not in run_reconciliation).  Money is counted in       *)
(* units; billed and lost are what the provider really charges, for the    *)
(* calls it answered and for attempts whose answer never arrived (one that *)
(* timed out and was retried): the program sees neither.                   *)
(***************************************************************************)
EXTENDS Naturals, Sequences, FiniteSets

CONSTANTS
  Runners,   \* runs: [calls, catches], the model calls of each case and
             \* whether InvalidAgentOutputError and RetriesExhaustedError are
             \* caught
  MaxCost,   \* bound: units one answered call costs, at least 1
  MaxLost,   \* bound: units the attempts of one call without an answer cost
  BUDGET_TOTAL, PRIOR_SPEND

ASSUME EvalAssumption ==
  /\ \A r \in Runners : r.calls \in Seq(Nat) /\ r.catches \in BOOLEAN
  /\ MaxCost \in Nat \ {0} /\ MaxLost \in Nat
  /\ BUDGET_TOTAL \in Nat /\ PRIOR_SPEND \in Nat

VARIABLES
  runner,     \* the run this is
  pc,         \* "start", "loop", "calling", "reporting", "done", "refused",
              \* "crashed"
  case,       \* index of the current case
  call,       \* calls of the current case already made
  tokens,     \* cost of the results the current case has returned
  error,      \* a call of the current case failed and was caught
  cumulative, \* cumulative_spend
  results,    \* the rows collected: [case, cost, valid]
  file,       \* the rows of the results file, << >> before it is written
  billed,     \* what the provider charged for the answers of each case
  lost        \* what it charged for each case's attempts without an answer

bills == << billed, lost >>
vars  == << runner, pc, case, call, tokens, error, cumulative, results, file, bills >>

Calls == runner.calls
Cases == 1 .. Len(Calls)

Init ==
  /\ runner \in Runners
  /\ pc = "start" /\ case = 1 /\ call = 0 /\ tokens = 0 /\ error = FALSE
  /\ cumulative = PRIOR_SPEND
  /\ results = << >> /\ file = << >>
  /\ billed = [c \in Cases |-> 0] /\ lost = [c \in Cases |-> 0]

\* main() begins, or refuses: the cost estimate was not reviewed, the prices
\* are not set, or there is no API key.
Begin ==
  /\ pc = "start"
  /\ pc' \in {"loop", "refused"}
  /\ UNCHANGED << runner, case, call, tokens, error, cumulative, results, file, bills >>

\* Wrong on purpose: the case inherits the last one's tokens.
StartCaseWithoutReset ==
  /\ pc = "loop" /\ case \in Cases
  /\ cumulative < BUDGET_TOTAL
  /\ call' = 0 /\ error' = FALSE
  /\ pc' = "calling"
  /\ UNCHANGED << runner, case, tokens, cumulative, results, file, bills >>

\* Wrong on purpose: the budget is not checked.
StartCaseUnchecked ==
  /\ pc = "loop" /\ case \in Cases
  /\ call' = 0 /\ tokens' = 0 /\ error' = FALSE
  /\ pc' = "calling"
  /\ UNCHANGED << runner, case, cumulative, results, file, bills >>

\* The budget check, before the case and at no other time.
StartCase ==
  /\ pc = "loop" /\ case \in Cases
  /\ cumulative < BUDGET_TOTAL
  /\ call' = 0 /\ tokens' = 0 /\ error' = FALSE
  /\ pc' = "calling"
  /\ UNCHANGED << runner, case, cumulative, results, file, bills >>

\* The cases are exhausted, or the budget is.
LeaveLoop ==
  /\ pc = "loop"
  /\ case \notin Cases \/ cumulative >= BUDGET_TOTAL
  /\ pc' = "reporting"
  /\ UNCHANGED << runner, case, call, tokens, error, cumulative, results, file, bills >>

\* One call: its answer, if there is one, and the attempts before it.
Bill(cost) ==
  /\ billed' = [billed EXCEPT ![case] = @ + cost]
  /\ \E units \in 0 .. MaxLost : lost' = [lost EXCEPT ![case] = @ + units]

Calling == pc = "calling" /\ call < Calls[case]

\* A call returned a valid result: its tokens are added up, those of its last
\* attempt.
CallSucceeds(cost) ==
  /\ Calling
  /\ Bill(cost)
  /\ tokens' = tokens + cost
  /\ call' = call + 1
  /\ UNCHANGED << runner, pc, case, error, cumulative, results, file >>

\* A call raised: after an answer that was paid for and does not validate, or
\* after its last attempt failed.  Caught, it costs the row everything the case
\* has spent; else the process ends.
CallFails(cost) ==
  /\ Calling
  /\ Bill(cost)
  /\ IF runner.catches
     THEN error' = TRUE /\ call' = call + 1 /\ UNCHANGED pc
     ELSE pc' = "crashed" /\ UNCHANGED << error, call >>
  /\ UNCHANGED << runner, case, tokens, cumulative, results, file >>

\* Any other exception ends the process: authentication, a bad request or no
\* tool_use block in a call; at no cost, a file that cannot be read or the
\* saved result of a failed investigator, which holds no claims.
CallBreaks(cost) ==
  /\ pc = "calling"
  /\ \/ call < Calls[case] /\ Bill(cost)
     \/ cost = 0 /\ UNCHANGED bills
  /\ pc' = "crashed"
  /\ UNCHANGED << runner, case, call, tokens, error, cumulative, results, file >>

\* score_case: a case with an error is reported without its cost.
Row == [case |-> case, cost |-> IF error THEN 0 ELSE tokens, valid |-> ~ error]

\* Wrong on purpose: a case with an error is left out of the results.
FinishValidCase ==
  /\ pc = "calling" /\ call = Calls[case]
  /\ results' = IF error THEN results ELSE Append(results, Row)
  /\ cumulative' = cumulative + Row.cost
  /\ case' = case + 1
  /\ pc' = "loop"
  /\ UNCHANGED << runner, call, tokens, error, file, bills >>

\* The case is scored, and its row kept.
FinishCase ==
  /\ pc = "calling" /\ call = Calls[case]
  /\ results' = Append(results, Row)
  /\ cumulative' = cumulative + Row.cost
  /\ case' = case + 1
  /\ pc' = "loop"
  /\ UNCHANGED << runner, call, tokens, error, file, bills >>

\* aggregate() and the results file, the only thing that outlives the process.
Report ==
  /\ pc = "reporting"
  /\ file' = results
  /\ pc' = "done"
  /\ UNCHANGED << runner, case, call, tokens, error, cumulative, results, bills >>

Next ==
  \/ Begin \/ StartCase \/ LeaveLoop \/ FinishCase \/ Report
  \/ \E cost \in 1 .. MaxCost : CallSucceeds(cost)
  \/ \E cost \in 0 .. MaxCost : CallFails(cost) \/ CallBreaks(cost)

Spec == Init /\ [][Next]_vars

-----------------------------------------------------------------------------
\* How many units the costs add up to.
Units(cost) == Cardinality(UNION {{i} \X (1 .. cost[i]) : i \in DOMAIN cost})

Total(rows) == Units([i \in DOMAIN rows |-> rows[i].cost])

RealSpend == PRIOR_SPEND + Units(billed) + Units(lost)

\* What every variable may hold.
TypeOK ==
  /\ runner \in Runners
  /\ pc \in {"start", "loop", "calling", "reporting", "done", "refused", "crashed"}
  /\ case \in 1 .. Len(Calls) + 1
  /\ call \in Nat /\ tokens \in Nat /\ error \in BOOLEAN
  /\ cumulative \in Nat
  /\ results \in Seq([case : Cases, cost : Nat, valid : BOOLEAN])
  /\ file \in Seq([case : Cases, cost : Nat, valid : BOOLEAN])
  /\ billed \in [Cases -> Nat] /\ lost \in [Cases -> Nat]

\* Each row is about its own case alone: the cost of a valid row is exactly
\* what was billed for that case's answers, whatever attempts were lost, and
\* nothing leaks from a case that failed into the next one's row.
RowsAreExact ==
  \A i \in DOMAIN results :
    /\ results[i].case = i
    /\ results[i].valid => results[i].cost = billed[i]
    /\ ~ results[i].valid => results[i].cost = 0

\* What the runner believes it has spent is what its rows say, never more than
\* was billed, and it passes the budget by less than one case.
OvershootIsOneCase ==
  /\ cumulative = PRIOR_SPEND + Total(results)
  /\ cumulative <= RealSpend
  /\ results # << >> =>
       cumulative < BUDGET_TOTAL + Calls[Len(results)] * MaxCost

\* A run that ends normally has reported every case, or stopped because its
\* rows add up to the budget: no case is skipped for another reason, and what
\* was billed was billed for a case that is reported.
FileAccountsForEveryCase ==
  pc = "done" =>
    /\ file = results
    /\ Len(file) = Len(Calls) \/ PRIOR_SPEND + Total(file) >= BUDGET_TOTAL
    /\ \A c \in Cases :
         billed[c] + lost[c] > 0 => \E i \in DOMAIN file : file[i].case = c

\* run_baseline.py: "if a case would push cumulative spend over budget,
\* execution stops before that call, not after".
NeverOverBudget == cumulative <= BUDGET_TOTAL
=============================================================================
