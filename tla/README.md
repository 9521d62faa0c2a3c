# Verification of vendor-due-diligence

This directory holds TLA+ models of the vendor due-diligence system, the TLC
configurations that check them on small instances, and TLAPS proofs that cover
every safety property the passing runs check. Every definition is translated from the code; `PROJECT.json`
maps each one to its lines.

## The system

A *case* is a vendor under review. Its documents are ingested, two investigator
agents extract claims from the documents of their own domain (security, privacy
and AI governance), a reconciler settles disagreements between claims, the
result is persisted as a graph of claims, findings and conflicts, and a human
reviewer closes the case in a web UI. PostgreSQL holds everything but the
uploaded files. Agents and reconciliation run from the evaluation runners; the
seed script replays their saved output into the database. There is no live
orchestrator yet.

| Component | State it keeps | Operations | Talks to |
|---|---|---|---|
| State machine (`app/state_machine.py`, `app/audit.py`) | `cases.status`, `case_state_transitions`, `audit_events` | `transition_case` | called by intake, the seed script and the review UI, inside the caller's transaction |
| Intake and storage (`app/intake.py`, `storage.py`, `parsing.py`) | vendors, cases, documents, versions; files under `data/uploads` | `create_case`, `ingest_document`, `start_validation`, `mark_documents_ready` | database, disk, routing |
| Routing and context (`app/routing.py`, `app/agents/context_builder.py`) | none | `classify_document_domain`, `build_context` | intake stores the domain, the investigators read by it |
| Review UI (`app/web/`) | cookies and pages in browsers; reviews, overrides | `case_detail`, `submit_review`, CSRF tokens, `get_db` | state machine, queries |
| Rate limiter (`app/web/ratelimit.py`) | failure times of each client, in memory | `dispatch` | wraps every request |
| Retry policy (`app/retry.py`) | loop variable, delays | `call_with_retry` | wraps every model call |
| Agent call (`app/agents`, `app/llm`, `app/observability.py`) | trace observations | `run_investigator`, `run_baseline`, `TracedLLMClient` | Anthropic, Langfuse |
| Reconciliation (`app/reconcile.py`, `reinvestigate.py`) | the pooled claims, updated in place | `reconcile`, `run_reinvestigation` | agent calls |
| Persistence (`app/persist.py`, `scripts/seed_demo_case.py`) | the evidence graph | `persist_agent_result`, `persist_reconciliation`, `seed_case` | intake, state machine, saved results |
| Evaluation runners (`eval/run_*.py`) | spend, rows, one results file | `main`, `run_one_case` | agents, reconciliation, scoring |
| Scoring (`eval/scoring.py`, `eval/compare_results.py`) | none but the loops' variables | `match_claims`, `score_case`, `aggregate`, `breakdown_by_issue_type`, `compare` | saved results and ground truth |

What makes them hard, and what makes them correct:

- **State machine.** Any number of sessions call `transition_case` on one row
  under READ COMMITTED. Correct: nobody advances a case twice, status, history
  and audit log never disagree in committed data, a closed case stays closed,
  and the committed history is a path of the graph.
- **Review UI.** Double clicks, two reviewers, stale tabs, commits that fail
  after the response is prepared. Correct: one decision on a finalized case, no
  trace of a submission that was refused, and answers that tell the truth, or
  promise what only a failing commit can break.
- **Rate limiter.** A list read before an `await` and written after it. Correct:
  nobody is charged with what it did not do.
- **Retry and agent call.** Any sequence of failures, and a tracing SDK that may
  fail at each step. Correct: bounded attempts, the outcome of the last one,
  tracing invisible, `end()` called on every observation.
- **Reconciliation.** Conflicts overlap, claims are shared objects, and the
  adjudicator may cite anything. Correct: each label is what the last conflict
  that settled it says, and no disagreement inside a domain is dropped or asked
  twice.
- **Persistence.** A graph written row by row in one transaction, and hops whose
  results nobody looks at. Correct: the graph is what reconciliation concluded,
  or nothing, and the history tells what happened.
- **Intake and routing.** Rows are transactional, files are not, and a filename
  may lead out of its document's directory; vendors are looked up and then
  inserted; documents are of mixed content or of no known type; callers may go
  on after any exception. Correct: each committed document is explained, its
  files are its own unless a filename leads to them, and it is read by the
  investigators its domain names and by no other.
- **Runners.** A budget checked before a case of several paid calls. Correct:
  rows are exact, and the overshoot is bounded by one case.
- **Scoring.** A greedy matching that uses predictions up, and two reports that
  each decide what a failed agent means. Correct: each claim gets the best
  prediction left, an extra prediction costs nothing, and the reports can both be
  true although one counts claims and the other averages cases.

`PROJECT.json` lists the hazards one by one, at the line where each bites.

## The modules

| Module | Models | State and actions |
|---|---|---|
| `CaseLifecycle` | what the state machine promises | `path`, the statuses a case has been through; one action, `Advance` |
| `CaseStateMachine` | `transition_case` in concurrent transactions | committed tables, the row lock, each session's uncommitted rows; the answers an UPDATE can get (`TransitionApplies`, `TransitionWaits`, `TransitionMisses`, `TransitionRaises`, `Resume`), `Begin`, `Commit`, `Rollback`, `Disconnect` |
| `CaseStateMachine_proofs` | | theorems and proofs |
| `ReviewDecision` | what the review form promises the reviewers | the `winner`, the request a decision was `promised` to, and what each request was `told`; `Decide`, `Confirm`, `Promise`, `Break`, `Beat`, `Refuse` |
| `ReviewSubmission` | the case page and `submit_review` | database, browsers (`cookie`, `page`), requests (`form`, `pc`, `response`); one action for each stretch of a handler between two points where others can see or block it; implements `ReviewDecision` |
| `RateLimit` | `dispatch` | `Admit` and `Throttle` up to the await, `Complete` and `Fail` after it |
| `RetryPolicy` | `call_with_retry` | attempts, outcomes and delays; the abstract specification of `AgentCall`, whose run checks its claims |
| `AgentCall` | `attempt()` through `TracedLLMClient` | `StartGeneration`, `Answer`, `EndGeneration` inside every attempt; implements `RetryPolicy` |
| `EvalRunner` | the three runners, one of `Runners` | `Begin` (which may refuse), `StartCase`, the three ways a call ends, `FinishCase`, `LeaveLoop`, `Report`; `billed` and `lost` are what the provider charges for answers and for attempts without one, which the program never sees |
| `Reconciliation` | `reconcile` and `run_reinvestigation` | claims, conflicts and records; one action for each re-investigation, one for each adjudicated conflict |
| `Persistence` | `Reconciliation` composed with the seeding transaction and with `CaseLifecycle` | `PersistAgentResult` writes one agent run with its claims, `PersistConflict` is one turn of `persist_reconciliation`'s loop, `CommitCase` the hops and the commit, `LoseTransaction` any exception; a `Hop` from a status the case is not in does nothing, as `transition_case` returning False does |
| `Intake` | `create_case`, `ingest_document` with its routing, files, `build_context` | `LookUpVendor` and `InsertVendor` apart, `Refuse`, `SaveOriginal` or `SaveFails`, then `StoreVersion`, `FailToParse`, `IngestBreaks` or `Break`, then `GoOn`, `Commit` or `Rollback`; `LeadsTo` says where a filename with directory parts leads |
| `Scoring` | `match_claims` and the two reports | `Load` a case, `Consider` a prediction (the inner loop), `Settle` a claim (the outer one), `ScoreCase`; the reports are operators on what is scored |

Seven more `*_proofs` modules hold the proofs about `ReviewSubmission`,
`RateLimit`, `AgentCall`, `EvalRunner`, `Scoring`, `Intake`, and (in
`Persistence_proofs`) `Reconciliation` with `Persistence`. `MC_*` modules only
give constants their values. Definitions marked "Wrong on purpose" are variants of the
definition that follows them; no run uses them. They show that each property
would notice the mistake they contain.

Conventions. PostgreSQL is modelled by the three things the code relies on:
uncommitted rows are private, an UPDATE locks its row to the end of the
transaction, and an UPDATE that waited tests its WHERE again (READ COMMITTED).
Each explicit `flush` inside one transaction is invisible to others, so a
handler's writes between two blocking points are one step. A commit publishes
all its rows at once.

## What the runs show

| Run | Instance | Shows |
|---|---|---|
| `case` | two sessions, transactions of any length, the whole graph | no double advance, tables agree, refinement of `CaseLifecycle`, terminal states stay, waiting calls are answered |
| `review_race` | three requests from one page, forms of up to two overrides, one of them possibly listed twice | one decision, nothing left by losers, refinement of `ReviewDecision` with the redirect before or after the commit (a 409 is true, a 303 is true or a promise), everybody answered |
| `review_browsers` | two browsers, three tabs, three pages, two requests, with an override of another case or none, redirect possibly before the commit | a finalized page shows its decision; the form loaded last is accepted |
| `limiter_concurrent` | four requests, two clients, three in flight | no failure invented, no throttling for somebody else's failures |
| `agent_call` | 0 to 5 attempts, backoffs 1, 2, 3, 3, tracing on and off | `end()` called once on every observation, justified outcome; tracing is invisible: refinement of `RetryPolicy`, fairness included, so that the call ends |
| `eval` | the three runners, four cases of 0 to 3 calls, calls of 0 to 2 units, with up to one more for lost attempts | exact rows, a file that accounts for every case and for what was billed, overshoot below one case |
| `persist` | 3 + 1 claims, two values, overlapping subjects, up to two adjudicated conflicts, good and bad citations, claims about unknown documents | labels traceable, no disagreement inside a domain lost, the graph is exact or absent, the history says whether the case was re-investigated |
| `intake` | two sessions, two vendors, three cases, two documents, seven kinds of upload, one of them with a filename that leads to the first document's `parsed.txt` | documents explained, texts and originals their own unless that name leads to them, every document read by whom its domain names |
| `scoring` | a case of two claims and one of one, up to three predictions, overlaps below, at and above the threshold, failed investigators | the best prediction left is taken, none counts twice, extras cost nothing, breakdown and aggregate have the same totals and rates that can both be true |

Why the bounds are enough: a race for one row needs two parties, and a waiter is
overtaken when the other party commits and locks the row again; the proofs cover
any number of sessions and requests. An override form needs two entries to
repeat one. Three claims of one agent are the fewest that give conflicts sharing
a claim; `Topics` lists which claims may share a subject, which is every pair of
the agent's own and one pair across the domains. With 3 + 1 claims the
adjudicator always has a claim to look at, so `Adjudicate` never skips its call
in that run. A budget is passed, met exactly and missed within four cases. A
third case is the first whose lookup can find two vendor rows. Two claims of one
document are the fewest that compete for a prediction, and a third prediction
can be taken from neither; the case after it shows that a case begins afresh.
`MaxPredictions`, `Scores`, `MaxDocuments`, `MaxCases`, `MaxTokens`,
`MaxOverrides`, `MaxSemantic`, `MaxTime`, `MaxInFlight` and `MaxAttempts` are
the bounds, with `MaxLost`, which makes an attempt without an answer cost
nothing or something; the theorems hold for any value of those in their modules.
`intake` is checked up to permutations of the sessions and of the vendors, which
no action and no invariant tells apart.
Deadlock is checked in `case`. It is switched off elsewhere, because those
programs end or use up the bound.

### Where the code disagrees with what it says

Three runs expect a violation, each of one sentence of the repository:

- `limiter_overlap`: overlapping failures of one client are counted once
  (`app/web/ratelimit.py:52`, against line 10).
- `eval_overshoot`: the spend can pass the budget (`eval/run_baseline.py:148`,
  against lines 12 and 13). The run `eval` shows by how much.
- `intake_overwrite`: an upload named `parsed.txt` that is not plain text loses
  its original (`app/storage.py:40`, against line 36). The run `intake` shows
  that the extracted text itself is safe.

The models also contain behaviours that no run is spent on:

- Invalid output is not retried (`app/agents/investigator.py:135`), as ADR-010
  and the code's comments say, while `docs/threat-model.md:93` and
  `docs/failure-modes.md:16` say that it is rejected and retried. `AgentCall`
  follows the code, and `OutcomeIsJustified` implies that only a retryable error
  is followed by another attempt.
- The spend of a case that failed is not accumulated, while
  `eval/run_baseline.py:9` says that every real call's cost is: in `EvalRunner`,
  `billed` and `cumulative` part, which is why `OvershootIsOneCase` has an
  inequality.
- Two sessions may insert the same new vendor, and the lookup raises
  `MultipleResultsFound` from then on (`LookUpVendor` of `Intake`).
- A caller that goes on after a parse failure commits a document without a
  version, which `app/intake.py:114` excludes. `EveryDocumentIsAccountedFor`
  shows that such a document has its `document.parse_failed` event, unless its
  ingestion ended with an exception of another kind: `ingest_document` promises
  "UploadValidationError or ParsingError on failure" and `parsing.py:33` "any
  parse failure", but of the PDF reader's exceptions only `PdfReadError` is
  translated, and a disk error is not (`IngestBreaks`, `SaveFails`).
- `storage.py:30` joins the filename to the document's directory as it is, so a
  name with directory parts is written elsewhere. In `Intake` such a name leads
  to a file of any document (`LeadsTo`), and the properties say exactly which
  files that can touch.
- The redirect may be sent before the commit (`app/web/deps.py:19`): FastAPI
  releases differ and `pyproject.toml` does not pin one. `Redirect` is possible
  on either side of `Commit`; a 303 whose commit then fails is the action `Break`
  of `ReviewDecision`.
- The breakdown's accuracies count every claim once, the aggregate's every case
  once. `eval/scoring.py:282` says that they can legitimately disagree, and so
  they do in the model; `ReportsAreConsistent` asks for what must agree all the
  same.
- A prediction that merges two ground-truth claims is used up by the first
  (`eval/scoring.py:88`), so the second counts as missed although the module's
  docstring says that merging "isn't wrong"; `NoPredictionCountsTwice` states
  what the code does.
- `compare` may be given runs over different cases, when one was stopped by its
  budget; nothing in its output tells.
- A saved result of a failed investigator has no claims, and the reconciliation
  runner breaks on it before it writes its file (`CallBreaks` of `EvalRunner`).

## Fairness

- `CaseStateMachine`: weak fairness of a session's `Commit` or `Rollback`, since
  `get_db` ends every transaction on both paths; strong fairness of `Resume`,
  since PostgreSQL queues the waiters of a row. Nobody is obliged to call
  anything.
- `ReviewSubmission`: weak fairness of each handler, which runs to its end once
  it has begun. Loading, sending, expiring and failing are not fair. Weak
  fairness suffices for the wait: the row is left for good in the end.
- `RetryPolicy`, `AgentCall`: weak fairness of `Next`; a call is one sequential
  program.
- `ReviewDecision`, `RateLimit`, `EvalRunner`, `Reconciliation`, `Persistence`,
  `Intake`, `Scoring`: safety only. Their programs are loops over finite lists,
  or end when their caller lets them.

## What is proved

### The state machine

`CaseStateMachine_proofs` proves, for every set of sessions and histories of any
length, from `NoSessionAssumption` alone:

1. `TypeCorrect`: `Spec => []TypeOK`.
2. `HistoryIsRight`, `AuditIsRight`, `AtMostOneWinner`: `HistoryMatchesStatus`,
   `AuditMatchesHistory`, `OneWinner`.
3. `NoDoubleAdvance`, `ReviewIsRight`: `OneRowPerHop`,
   `ReviewAndReinvestigation`.
4. `ClosedStaysClosed`: `TerminalIsForever`.
5. `Refinement`: `Spec => Graph!Spec`.

None of the invariants is inductive alone. `HistoryMatchesStatus` holds after a
commit only because the rows the session publishes continue the history as it
is *now*; that is true because the session has held the row lock since its first
row. So the inductive invariant `IInv` joins the typing, the two table
invariants, the lock discipline (uncommitted rows imply the lock) and
`PendingContinuesHistory`; `OneWinner` follows from the lock discipline. Each
action preserves it by one step of the proof, with lemmas on appending to and
concatenating chains.

`NoDoubleAdvance` and `ReviewIsRight` need more: that the graph has no cycle.
The proof gives each status a rank that every edge increases, and shows
(`RankInv`) that ranks increase along the history, so no status occurs twice.
`Refinement` uses that a commit appends a chain to a chain, and that every other
step leaves the history alone.

### The review form

`ReviewSubmission_proofs` is about any number of requests, browsers, tabs and
overrides. `OneDecision` is not inductive: a commit adds a review, so the
invariant must say that the committing request holds the case row and that the
row cannot have been finalized while it is held (`LockHeldWhileOpen`), what is on
record once a request has got so far (`DecisionOnRecord`), and what an answer
given implies (`AnswersFollow`). `OneDecisionHolds` and `FailuresLeaveNothing`
follow. `TypesHold` needs that a handler past its checks has a decision of the
form to record (`DecisionsChecked`): the bytes of a form are the browser's. The
pages and forms have an invariant of their own (`PagesOK`, `FormsOK`), for
`PageShowsDecision` and `LatestFormHolds`.

`ReviewRefinement` shows that the handlers implement `ReviewDecision`, whether
the redirect is sent before or after the commit. A request told 303 with its
transaction open has been promised a decision. That nobody can overtake it is
the lock again: the promise stands while the request holds the row, so there is
one at a time, and only its own commit or failure ends it. Beside `IInv` the
refinement rests on one more fact, that nobody is told 303 before its UPDATE
(`ToldAfterUpdate`).

### The other modules

- `AgentCall_proofs`, from the assumptions on the bounds only: how many answers there
  are at each point of the loop, and that all but the last are retryable
  (`Progress`), gives `OutcomeHolds`; that one more observation is started than
  was ended or lost exactly while a real one is in hand (`Balance`) gives
  `ObservationsEnd`. `RetryRefinement` shows `Spec => Retry!Spec`:
  tracing calls stutter, everything else is a step of `call_with_retry`.
- `EvalRunner_proofs`: `RowsHold`, since the tokens in hand are the bill of the
  current case unless one of its calls failed (`CaseInHand`) and the cases to
  come have cost nothing (`NothingBilledAhead`). The budget needs what a case
  under way may still add (`Spending`): it began below the budget, and each of
  its calls costs at most `MaxCost`. That gives `OvershootHolds`, with
  `FileHolds` from both.
- `Scoring_proofs`, for any ground truth, predictions, overlaps and threshold.
  `BestHolds` and `CountedOnce`: in the inner loop `best` is the preferred one of
  the predictions looked at (`BestSoFar`), in the outer one the unused
  predictions are those no claim was given (`Leftover`).
  `ExtrasAreFree` compares the matching the loops made with any greedy matching
  of one prediction fewer: claim by claim, the predictions left to the two differ
  by one at most (`OneApart`). At the end the loops leave at most one more, but
  were offered one more, so they matched at least as many. `ReportsAgree`: the two
  reports count the same claims (`MetricsCount`), as a failed case has no
  predictions and so no matches, which the breakdown does not look at but relies
  on (first conjunct of `Reports`). The categories add up to the rows column
  by column (`ColumnsAddUp`), and a sum is zero only when each of its terms is;
  what is missing of a row's recall is missing in one of its categories (`Shows`).
- `Intake_proofs`: `TextStaysReadable`, `DocumentsAccounted` and `DocumentsRead`,
  for any sessions and uploads. The rows of a document are in one place only,
  the database or one transaction (`Local`, `Apart`); there the document is
  accounted for, unless its session is working on it or about to roll back
  (`InOrder`); new documents have new numbers, so a text on disk stays what it
  was, unless a filename leads to it (`Harmless`: what is written is the
  document's own, or goes to a place some filename leads to). `OriginalsStay` is
  the other side of the finding of `intake_overwrite`: an original is lost to its
  own extracted text, when it was uploaded as `parsed.txt`, or to a filename that
  leads to it, and to nothing else.
- `RateLimit_proofs`, for any clients, requests, limit and window. The number of
  times in a list is no invariant: it changes when the list is filtered, handed
  to a request and written back over what others wrote. The invariant (`Books`)
  names the failed request each time stands for, a different one for each.
  `NoOvercount` and `OnlyFailuresThrottle` follow. With its parameter
  `exact` the same invariant also says that no failure in the window is missing;
  that half needs `Serial`, and `SerialClientsAreCounted` says so: overlapping
  requests of one client, the finding of `limiter_overlap`, are the only way to
  lose a failure.
- `Persistence_proofs`, about `Reconciliation` and `Persistence` with any number
  of claims, any relation of their subjects, any answers and citations. In
  `reconcile()` the lists are filled in order (`Listed`: the k-th record and the
  k-th conflict are the k-th disagreement's, what the adjudicator reported comes
  after), so `StatusIsLastVerdict` can be carried from step to step. The list of
  disagreements itself is a set put in order; that it has each of them once is
  proved from how many come before each. `TxInv` says what the transaction holds
  at each number of agent runs and rows, the status of the case included, so that
  each hop starts where the one before led and applies (`HopsOfTheCase`). `PersistingImplementsReconciliation`
  (`PSpec => Spec`) carries what is proved about `reconcile()` over to the
  transaction around it.

Sums are written as the number of elements of a set with one element for each
unit (`SumOf`, `Total`), and the reference for the matching as a predicate
(`Greedy`), not as recursive operators: facts about the size of finite sets then
take the place of inductions. Where an argument does go place by place
(`OneApart`, the order of the disagreements), it is made for the least place
where the claim could fail.

### Model-checked only

Liveness: `EveryCallIsAnswered`, `EverySubmissionIsAnswered` and the fair half of
`ImplementsRetryPolicy`. They rest on fairness and `ENABLED`, which the prover does
not handle. The three properties expected to be violated, of course; for one of
them a theorem says when it holds (`SerialClientsAreCounted`), for one how it may
fail (`OriginalsStay`), and for one by how much (`OvershootHolds`).

### What the properties do not say

- `EveryDisagreementOnce` is about pairs inside a domain. A claim that is in such
  a conflict is not offered to the adjudicator any more, so that a claim of the
  other domain which contradicts it is never compared with it; the code does so
  by design and no property asks for more.
- `NoDocumentIsUnread` takes a document's domain as given: a document routed
  explicitly to a domain it has nothing to do with satisfies it, and so does one
  that failed to parse, which has no text to be read.
- `EveryObservationEnded` counts the calls of `end()`: one that fails leaves the
  observation open at Langfuse (`lost`).
- `ParsedTextIsReadable` and `OriginalIsLostOnlyByName` let go of a file as soon
  as some upload's filename leads to it.

## What is not modelled, and why

- Prompts, excerpts, redaction, HTML, security headers: no state that several
  steps could break.
- The smoke test, configuration, app factory and basic authentication: wiring
  and one-shot scripts. Of the ground-truth validator only the rule that scoring
  relies on is there (`ReferentiallySound`).
- Byte-level upload validation and the parsers: pure functions, present by their
  outcomes.
- The injection, grounding, cost and latency figures of scoring, and everything
  printed. Of a mean of rates the model keeps whether it is None, 0, 1 or between.
- The append-only triggers and the partial unique index on agent runs: no code
  in `src/` updates or deletes a row of those tables, or runs an agent of a case
  twice, so they are never reached. The other constraints appear in the modules
  that rely on them.
- The evidence items of a claim are written together with it and are not told
  apart.
- The SDK's own retries inside each attempt, and parser libraries that swallow
  the parse timeout: that code is not in the repository.
- Cases never interact in the review UI except by ids listed in a form, so one
  case stands for all; ids of other cases are in `OtherFindings`.
- The two-phase race inside one `get_case_detail` is kept to its first and last
  statement; the ones between read rows that do not change any more.

## Plan

Done: all modules above. `CaseStateMachine` came first, with its proofs and
its abstract lifecycle; then the review form, the limiter, the agent call, the
runners, reconciliation, persistence and intake; then scoring, routing, agent
persistence and `ReviewDecision`, and the proofs of the other modules;
last the proofs about the limiter, reconciliation and persistence, of the budget,
and of the counts and sums of scoring.

What is left, should the code grow in that direction:

1. A live orchestrator will compose `Intake`, `AgentCall`, `Reconciliation` and
   `Persistence` with `CaseStateMachine` in many transactions instead of one.
   `HistoryTellsTheCase`, and a property on documents added after
   `DOCUMENTS_READY`, then have to hold across crashes.
2. Proofs of liveness, once the prover handles `ENABLED`: the argument for
   `EverySubmissionIsAnswered` would be that each decision frees the row for good.
