-------------------------- MODULE ReviewSubmission --------------------------
(***************************************************************************)
(* The review UI on one case (app/web/routes.py, queries.py, csrf.py,      *)
(* deps.py): browser tabs load the case page and submit its form; the      *)
(* POST handlers run concurrently, each in a transaction of its own under  *)
(* READ COMMITTED, and race to take the case from AWAITING_HUMAN_REVIEW to *)
(* FINALIZED.                                                              *)
(*                                                                         *)
(* A handler's private work between two points where other sessions can    *)
(* see or block it is one step.  A request is one POST: a double click is  *)
(* two requests sent from the same page.                                   *)
(***************************************************************************)
EXTENDS Naturals, Sequences, FiniteSets, Functions

CONSTANTS
  Requests,         \* POST requests, each sent at most once
  Tabs, Browsers,   \* the tabs reviewers have open, and their browsers
  BrowserOf,        \* the browser of each tab: its tabs share one cookie jar
  Findings,         \* ids of the findings of this case
  OtherFindings,    \* ids of findings of other cases
  MaxOverrides,     \* bound: overrides listed in one form
  MaxTokens,        \* bound: case pages rendered
  VALID_DECISIONS,
  InvalidDecision,  \* any other value of the decision field
  NoRequest

ASSUME ReviewAssumption ==
  /\ BrowserOf \in [Tabs -> Browsers]
  /\ Findings \cap OtherFindings = {}
  /\ InvalidDecision \notin VALID_DECISIONS
  /\ NoRequest \notin Requests
  /\ MaxOverrides \in Nat /\ MaxTokens \in Nat

VARIABLES
  case,     \* cases row, committed: [status, finalized_at set?]
  reviews,  \* human_reviews with their overrides, committed
  events,   \* human_review.recorded audit events, committed
  lock,     \* the request whose UPDATE holds the case row, or NoRequest
  issued,   \* number of CSRF tokens issued so far: tokens are 1 .. issued
  expired,  \* tokens 1 .. expired are past their max_age
  cookie,   \* the csrf_token cookie of each browser, 0 when there is none
  latest,   \* the tab that last loaded the page in each browser, or {}
  page,     \* what each tab shows
  form,     \* what each request carries
  pc,       \* where the handler of each request is
  response  \* the status code each request was answered with

dbVars      == << case, reviews, events >>
browserVars == << issued, expired, cookie, latest, page >>
vars == << dbVars, lock, browserVars, form, pc, response >>

AllFindings == Findings \cup OtherFindings
Overrides   == UNION {[1 .. n -> AllFindings] : n \in 0 .. MaxOverrides}

\* A page being loaded has read the case row and not yet the reviews.
Blank == [state |-> "blank", token |-> 0, status |-> "none", reviewed |-> FALSE]
NoForm == [token |-> 0, cookie |-> 0, decision |-> InvalidDecision,
           overrides |-> << >>, fresh |-> FALSE]

Init ==
  /\ case = [status |-> "AWAITING_HUMAN_REVIEW", finalized |-> FALSE]
  /\ reviews = {} /\ events = {}
  /\ lock = NoRequest
  /\ issued = 0 /\ expired = 0
  /\ cookie = [b \in Browsers |-> 0]
  /\ latest = [b \in Browsers |-> {}]
  /\ page = [t \in Tabs |-> Blank]
  /\ form = [r \in Requests |-> NoForm]
  /\ pc = [r \in Requests |-> "unsent"]
  /\ response = [r \in Requests |-> 0]

-----------------------------------------------------------------------------
\* GET /cases/{id}.  get_case_detail reads the case row first ...
ReadCase(t) ==
  /\ page[t].state # "loading"
  /\ issued < MaxTokens
  /\ page' = [page EXCEPT ![t] =
       [Blank EXCEPT !.state = "loading", !.status = case.status]]
  /\ UNCHANGED << dbVars, lock, issued, expired, cookie, latest, form, pc, response >>

\* Wrong on purpose: a browser that has a cookie keeps it.
ReadReviewsKeepingCookie(t) ==
  LET b == BrowserOf[t] IN
  /\ page[t].state = "loading"
  /\ issued < MaxTokens
  /\ issued' = issued + 1
  /\ cookie' = [cookie EXCEPT ![b] = IF @ = 0 THEN issued + 1 ELSE @]
  /\ latest' = [latest EXCEPT ![b] = {t}]
  /\ page' = [page EXCEPT ![t] =
       [@ EXCEPT !.state = "shown", !.token = issued + 1,
                 !.reviewed = (reviews # {})]]
  /\ UNCHANGED << dbVars, lock, expired, form, pc, response >>

\* ... and the reviews last, each statement on its own snapshot.  The response
\* carries a new token in the form and in the cookie.
ReadReviews(t) ==
  LET b == BrowserOf[t] IN
  /\ page[t].state = "loading"
  /\ issued < MaxTokens
  /\ issued' = issued + 1
  /\ cookie' = [cookie EXCEPT ![b] = issued + 1]
  /\ latest' = [latest EXCEPT ![b] = {t}]
  /\ page' = [page EXCEPT ![t] =
       [@ EXCEPT !.state = "shown", !.token = issued + 1,
                 !.reviewed = (reviews # {})]]
  /\ UNCHANGED << dbVars, lock, expired, form, pc, response >>

\* The oldest tokens reach CSRF_MAX_AGE_SECONDS, and the browser drops the
\* cookie of the same age.
Expire ==
  /\ expired < issued
  /\ expired' = expired + 1
  /\ cookie' = [b \in Browsers |-> IF cookie[b] <= expired' THEN 0 ELSE cookie[b]]
  /\ UNCHANGED << dbVars, lock, issued, latest, page, form, pc, response >>

\* The reviewer presses the button of a page that shows the form.
Send(r, t, decision, overrides) ==
  LET b == BrowserOf[t] IN
  /\ pc[r] = "unsent"
  /\ page[t].state = "shown" /\ page[t].status = "AWAITING_HUMAN_REVIEW"
  /\ form' = [form EXCEPT ![r] =
       [token |-> page[t].token, cookie |-> cookie[b], decision |-> decision,
        overrides |-> overrides, fresh |-> latest[b] = {t}]]
  /\ pc' = [pc EXCEPT ![r] = "sent"]
  /\ UNCHANGED << dbVars, lock, browserVars, response >>

-----------------------------------------------------------------------------
\* The handler is over without a trace in the database.
Answer(r, code) ==
  /\ pc' = [pc EXCEPT ![r] = "done"]
  /\ response' = [response EXCEPT ![r] = code]
  /\ form' = [form EXCEPT ![r] = NoForm]

verify_csrf(r) ==
  /\ form[r].cookie # 0
  /\ form[r].cookie = form[r].token
  /\ form[r].cookie > expired

\* Wrong on purpose: the decision is not checked.
CheckWithoutDecision(r) ==
  /\ pc[r] = "sent"
  /\ CASE ~ verify_csrf(r) -> Answer(r, 403)
       [] verify_csrf(r) /\ case.status # "AWAITING_HUMAN_REVIEW" -> Answer(r, 409)
       [] OTHER -> /\ pc' = [pc EXCEPT ![r] = "checked"]
                   /\ UNCHANGED << form, response >>
  /\ UNCHANGED << dbVars, lock, browserVars >>

\* submit_review up to the check of can_review, which uses the case row read
\* here: nothing holds that row until the UPDATE below.
Check(r) ==
  /\ pc[r] = "sent"
  /\ CASE ~ verify_csrf(r) -> Answer(r, 403)
       [] verify_csrf(r) /\ form[r].decision \notin VALID_DECISIONS -> Answer(r, 422)
       [] verify_csrf(r) /\ form[r].decision \in VALID_DECISIONS
            /\ case.status # "AWAITING_HUMAN_REVIEW" -> Answer(r, 409)
       [] OTHER -> /\ pc' = [pc EXCEPT ![r] = "checked"]
                   /\ UNCHANGED << form, response >>
  /\ UNCHANGED << dbVars, lock, browserVars >>

\* The overrides recorded: the findings of this case that the form lists.  One
\* that is listed twice is a duplicate primary key.
Overridden(r) == Range(form[r].overrides) \cap Findings
DuplicateOverride(r) ==
  \E i, j \in DOMAIN form[r].overrides :
    i # j /\ form[r].overrides[i] = form[r].overrides[j] /\ form[r].overrides[i] \in Findings

\* What the handler has inserted when it commits.
Review(r) == [by |-> r, decision |-> form[r].decision, overrides |-> Overridden(r)]
Event(r)  == [by |-> r, decision |-> form[r].decision, overrides |-> Overridden(r)]

\* transition_case's UPDATE is answered: the row is ours, or it is no longer
\* AWAITING_HUMAN_REVIEW and the handler rolls back.  The flush that follows a
\* successful UPDATE inserts the override rows, and fails on a duplicate.
Update(r) ==
  \/ /\ case.status # "AWAITING_HUMAN_REVIEW"
     /\ Answer(r, 409)
     /\ UNCHANGED lock
  \/ /\ case.status = "AWAITING_HUMAN_REVIEW" /\ DuplicateOverride(r)
     /\ Answer(r, 500)
     /\ UNCHANGED lock
  \/ /\ case.status = "AWAITING_HUMAN_REVIEW" /\ ~ DuplicateOverride(r)
     /\ lock' = r
     /\ pc' = [pc EXCEPT ![r] = "updated"]
     /\ UNCHANGED << form, response >>

\* Wrong on purpose: a locked row is taken for a lost race (NOWAIT).
FinalizeNoWait(r) ==
  /\ pc[r] = "checked"
  /\ IF lock # NoRequest /\ case.status = "AWAITING_HUMAN_REVIEW"
     THEN Answer(r, 409) /\ UNCHANGED lock
     ELSE Update(r)
  /\ UNCHANGED << dbVars, browserVars >>

\* Wrong on purpose: the status is committed before the review is written.
FinalizeStatusFirst(r) ==
  /\ pc[r] = "checked" /\ lock = NoRequest
  /\ Update(r)
  /\ case' = IF lock' = r THEN [status |-> "FINALIZED", finalized |-> TRUE] ELSE case
  /\ UNCHANGED << reviews, events, browserVars >>

\* The review row is inserted and the UPDATE sent: it waits for the row when
\* its WHERE matches and another request holds it.
Finalize(r) ==
  /\ pc[r] = "checked"
  /\ IF lock # NoRequest /\ case.status = "AWAITING_HUMAN_REVIEW"
     THEN pc' = [pc EXCEPT ![r] = "waiting"] /\ UNCHANGED << lock, form, response >>
     ELSE Update(r)
  /\ UNCHANGED << dbVars, browserVars >>

\* Wrong on purpose: the WHERE is not tested again on the row.
ResumeBlindly(r) ==
  /\ pc[r] = "waiting" /\ lock = NoRequest
  /\ lock' = r
  /\ pc' = [pc EXCEPT ![r] = "updated"]
  /\ UNCHANGED << dbVars, browserVars, form, response >>

\* Wrong on purpose: a loser commits the review row it inserted.
ResumeKeepingReview(r) ==
  /\ pc[r] = "waiting" /\ lock = NoRequest
  /\ Update(r)
  /\ reviews' = IF response'[r] = 409 THEN reviews \cup {Review(r)} ELSE reviews
  /\ UNCHANGED << case, events, browserVars >>

Resume(r) ==
  /\ pc[r] = "waiting" /\ lock = NoRequest
  /\ Update(r)
  /\ UNCHANGED << dbVars, browserVars >>

\* Wrong on purpose: the row stays locked.
CommitKeepingLock(r) ==
  /\ pc[r] = "updated"
  /\ pc' = [pc EXCEPT ![r] = IF response[r] = 0 THEN "committed" ELSE "done"]
  /\ form' = [form EXCEPT ![r] = NoForm]
  /\ UNCHANGED << dbVars, lock, browserVars, response >>

\* get_db commits: status, finalized_at, history, review, overrides and audit
\* event become visible at once.
Commit(r) ==
  /\ pc[r] = "updated"
  /\ case' = [status |-> "FINALIZED", finalized |-> TRUE]
  /\ reviews' = reviews \cup {Review(r)}
  /\ events' = events \cup {Event(r)}
  /\ lock' = NoRequest
  /\ pc' = [pc EXCEPT ![r] = IF response[r] = 0 THEN "committed" ELSE "done"]
  /\ form' = [form EXCEPT ![r] = NoForm]
  /\ UNCHANGED << browserVars, response >>

\* The redirect is sent: after the commit, or before it.  Which one is up to
\* the FastAPI release, that of the code of a dependency after its yield.
Redirect(r) ==
  /\ response[r] = 0
  /\ \/ pc[r] = "committed" /\ pc' = [pc EXCEPT ![r] = "done"]
     \/ pc[r] = "updated" /\ UNCHANGED pc
  /\ response' = [response EXCEPT ![r] = 303]
  /\ UNCHANGED << dbVars, lock, browserVars, form >>

\* The commit fails, or the process dies with the transaction open.
Abort(r) ==
  /\ pc[r] \in {"sent", "checked", "waiting", "updated"}
  /\ lock' = IF lock = r THEN NoRequest ELSE lock
  /\ pc' = [pc EXCEPT ![r] = "done"]
  /\ response' = [response EXCEPT ![r] = IF @ = 0 THEN 500 ELSE @]
  /\ form' = [form EXCEPT ![r] = NoForm]
  /\ UNCHANGED << dbVars, browserVars >>

Handle(r) == Check(r) \/ Finalize(r) \/ Resume(r) \/ Commit(r) \/ Redirect(r)

Next ==
  \/ \E t \in Tabs : ReadCase(t) \/ ReadReviews(t)
  \/ Expire
  \/ \E r \in Requests, t \in Tabs, d \in VALID_DECISIONS \cup {InvalidDecision},
        o \in Overrides : Send(r, t, d, o)
  \/ \E r \in Requests : Handle(r) \/ Abort(r)

\* A handler that runs keeps running; nobody is obliged to load or submit.
Fairness == \A r \in Requests : WF_vars(Handle(r))

Spec     == Init /\ [][Next]_vars
FairSpec == Spec /\ Fairness

-----------------------------------------------------------------------------
\* What every variable may hold.
TypeOK ==
  /\ case \in [status : {"AWAITING_HUMAN_REVIEW", "FINALIZED"}, finalized : BOOLEAN]
  /\ reviews \subseteq [by : Requests, decision : VALID_DECISIONS,
                        overrides : SUBSET Findings]
  /\ events \subseteq [by : Requests, decision : VALID_DECISIONS,
                       overrides : SUBSET Findings]
  /\ lock \in Requests \cup {NoRequest}
  /\ issued \in 0 .. MaxTokens /\ expired \in 0 .. issued
  /\ cookie \in [Browsers -> 0 .. issued]
  /\ latest \in [Browsers -> SUBSET Tabs]
  /\ page \in [Tabs -> [state : {"blank", "loading", "shown"}, token : 0 .. issued,
                        status : {"none", "AWAITING_HUMAN_REVIEW", "FINALIZED"},
                        reviewed : BOOLEAN]]
  /\ form \in [Requests -> [token : 0 .. issued, cookie : 0 .. issued,
                            decision : VALID_DECISIONS \cup {InvalidDecision},
                            overrides : Overrides, fresh : BOOLEAN]]
  /\ pc \in [Requests -> {"unsent", "sent", "checked", "waiting", "updated",
                          "committed", "done"}]
  /\ response \in [Requests -> {0, 303, 403, 409, 422, 500}]

\* The case is FINALIZED exactly when one decision is on record, however many
\* reviewers pressed the button; finalized_at and the audit event go with it.
OneDecision ==
  /\ Cardinality(reviews) = IF case.status = "FINALIZED" THEN 1 ELSE 0
  /\ case.finalized = (case.status = "FINALIZED")
  /\ events = reviews

\* A reviewer told that the submission failed left nothing behind: no review
\* of a request answered with an error is ever recorded, and no request holds
\* the case row once it is answered with one.
FailedLeavesNothing ==
  \A r \in Requests :
    response[r] \notin {0, 303} => /\ \A v \in reviews : v.by # r
                                   /\ lock # r

\* What the reviewers are promised, for any interleaving of the transactions
\* and whether get_db commits before the response is sent or after it: the
\* first commit decides, for good; a 409 is given only once a decision is on
\* record; and a 303 only to the request on record or to the one that is about
\* to be, which nobody overtakes unless its commit fails.
Decision == INSTANCE ReviewDecision
  WITH winner <- IF reviews = {} THEN NoRequest ELSE (CHOOSE v \in reviews : TRUE).by,
       promised <- IF lock # NoRequest /\ response[lock] # 0 THEN lock ELSE NoRequest,
       told   <- [r \in Requests |-> CASE response[r] = 0   -> "nothing"
                                       [] response[r] = 303 -> "recorded"
                                       [] response[r] = 409 -> "conflict"
                                       [] response[r] \in {403, 422, 500} -> "refused"]

ImplementsReviewDecision == Decision!Spec

\* A page that shows the case as finalized shows the decision that finalized
\* it, although the page is read by several statements and a decision may be
\* committed between any two of them.
FinalizedPageShowsReview ==
  \A t \in Tabs :
    page[t].state = "shown" /\ page[t].status = "FINALIZED" => page[t].reviewed

\* The form of the page a browser loaded last is accepted until it expires,
\* whatever else its tabs and other browsers do.
LatestFormIsAccepted ==
  [][\A r \in Requests :
       response[r] = 0 /\ response'[r] = 403 =>
         ~ form[r].fresh \/ form[r].token <= expired]_vars

\* Every submission is answered, a waiting one included.
EverySubmissionIsAnswered ==
  \A r \in Requests : pc[r] = "sent" ~> response[r] # 0
=============================================================================
