----------------------- MODULE ReviewSubmission_proofs -----------------------
(***************************************************************************)
(* Proofs about ReviewSubmission for any number of requests, browsers and  *)
(* tabs, pages and overrides.                                              *)
(*                                                                         *)
(* OneDecision is not inductive: a commit adds a review, so the invariant  *)
(* must say that the committing request holds the case row, and that the   *)
(* row cannot have been finalized while it is held (LockHeldWhileOpen).    *)
(* FailedLeavesNothing needs to know where the handler of an answered      *)
(* request, and that of a recorded review, can be (AnswersFollow).         *)
(*                                                                         *)
(* The pages and the forms have invariants of their own (PagesOK, FormsOK):*)
(* a page that shows the case as finalized found its review already there, *)
(* and no form carries a token newer than its browser's cookie.            *)
(*                                                                         *)
(* The refinement of ReviewDecision needs one more fact: nobody is         *)
(* answered before its UPDATE is, whichever way get_db's commit and the    *)
(* response are ordered (ToldAfterUpdate).                                 *)
(***************************************************************************)
EXTENDS ReviewSubmission, FiniteSetTheorems, TLAPS

Open   == "AWAITING_HUMAN_REVIEW"
Closed == "FINALIZED"

HandlersOK ==
  /\ pc \in [Requests -> {"unsent", "sent", "checked", "waiting", "updated",
                          "committed", "done"}]
  /\ response \in [Requests -> {0, 303, 403, 409, 422, 500}]

\* A request has the case row exactly between its UPDATE and its end, and the
\* row is not finalized by anyone else in that time.
LockHeldWhileOpen ==
  /\ lock \in Requests \cup {NoRequest}
  /\ \A r \in Requests : pc[r] = "updated" <=> lock = r
  /\ lock # NoRequest => case.status = Open

DecisionOnRecord ==
  /\ events = reviews
  /\ \/ case = [status |-> Open, finalized |-> FALSE] /\ reviews = {}
     \/ case = [status |-> Closed, finalized |-> TRUE] /\ \E v : reviews = {v} /\ v.by \in Requests

AnswersFollow ==
  /\ \A v \in reviews : pc[v.by] \in {"committed", "done"} /\ response[v.by] \in {0, 303}
  /\ \A r \in Requests : response[r] \notin {0, 303} => pc[r] = "done"

IInv == HandlersOK /\ LockHeldWhileOpen /\ DecisionOnRecord /\ AnswersFollow

-----------------------------------------------------------------------------
LEMMA InitIInv == Init => IInv
  BY ReviewAssumption
  DEF Init, IInv, HandlersOK, LockHeldWhileOpen, DecisionOnRecord, AnswersFollow,
      Open, Closed

\* A handler that has not taken the row ends with an answer.
LEMMA AnswerKeepsIInv ==
  ASSUME IInv, NEW r \in Requests, NEW code \in {303, 403, 409, 422, 500},
         pc[r] \in {"sent", "checked", "waiting"}, Answer(r, code),
         UNCHANGED << dbVars, lock >>
  PROVE  IInv'
<1>1. HandlersOK'
  BY DEF IInv, HandlersOK, Answer
<1>2. LockHeldWhileOpen'
  BY DEF IInv, HandlersOK, LockHeldWhileOpen, Answer, dbVars
<1>3. DecisionOnRecord'
  BY DEF IInv, DecisionOnRecord, dbVars
<1>4. AnswersFollow'
  <2>1. \A v \in reviews : v.by # r /\ v.by \in Requests
    BY DEF IInv, DecisionOnRecord, AnswersFollow
  <2> QED
    BY <2>1 DEF IInv, HandlersOK, AnswersFollow, Answer, dbVars
<1> QED
  BY <1>1, <1>2, <1>3, <1>4 DEF IInv

\* A handler goes on without taking the row.
LEMMA GoOnKeepsIInv ==
  ASSUME IInv, NEW r \in Requests, NEW from \in {"unsent", "sent", "checked"},
         NEW to \in {"sent", "checked", "waiting"},
         pc[r] = from, pc' = [pc EXCEPT ![r] = to],
         UNCHANGED << dbVars, lock, response >>
  PROVE  IInv'
<1>1. HandlersOK'
  BY DEF IInv, HandlersOK
<1>2. LockHeldWhileOpen'
  BY DEF IInv, HandlersOK, LockHeldWhileOpen, dbVars
<1>3. DecisionOnRecord'
  BY DEF IInv, DecisionOnRecord, dbVars
<1>4. AnswersFollow'
  <2>1. \A v \in reviews : v.by # r /\ v.by \in Requests
    BY DEF IInv, DecisionOnRecord, AnswersFollow
  <2> QED
    BY <2>1 DEF IInv, HandlersOK, AnswersFollow, dbVars
<1> QED
  BY <1>1, <1>2, <1>3, <1>4 DEF IInv

\* The answer of the UPDATE: an error, or the row.
LEMMA UpdateKeepsIInv ==
  ASSUME IInv, NEW r \in Requests, pc[r] \in {"checked", "waiting"},
         lock = NoRequest \/ case.status # Open, Update(r), UNCHANGED dbVars
  PROVE  IInv'
<1>1. CASE Answer(r, 409) /\ UNCHANGED lock
  BY <1>1, AnswerKeepsIInv
<1>2. CASE Answer(r, 500) /\ UNCHANGED lock
  BY <1>2, AnswerKeepsIInv
<1>3. CASE /\ case.status = Open /\ lock' = r
           /\ pc' = [pc EXCEPT ![r] = "updated"] /\ UNCHANGED << form, response >>
  <2>1. HandlersOK'
    BY <1>3 DEF IInv, HandlersOK
  <2>2. LockHeldWhileOpen'
    BY <1>3, ReviewAssumption DEF IInv, HandlersOK, LockHeldWhileOpen, dbVars
  <2>3. DecisionOnRecord'
    BY <1>3 DEF IInv, DecisionOnRecord, dbVars
  <2>4. AnswersFollow'
    <3>1. reviews = {}
      BY <1>3 DEF IInv, DecisionOnRecord, Open, Closed
    <3> QED
      BY <1>3, <3>1 DEF IInv, HandlersOK, AnswersFollow, dbVars
  <2> QED
    BY <2>1, <2>2, <2>3, <2>4 DEF IInv
<1> QED
  BY <1>1, <1>2, <1>3 DEF Update, Open

LEMMA CommitKeepsIInv ==
  ASSUME IInv, NEW r \in Requests, Commit(r)
  PROVE  IInv'
<1>0. lock = r /\ reviews = {} /\ pc[r] = "updated" /\ response[r] \in {0, 303}
  BY ReviewAssumption
  DEF Commit, IInv, HandlersOK, LockHeldWhileOpen, DecisionOnRecord, AnswersFollow,
      Open, Closed
<1>1. HandlersOK'
  BY DEF Commit, IInv, HandlersOK
<1>2. LockHeldWhileOpen'
  BY <1>0, ReviewAssumption DEF Commit, IInv, HandlersOK, LockHeldWhileOpen
<1>3. reviews' = {Review(r)} /\ Review(r).by = r
  BY <1>0 DEF Commit, Review
<1>4. DecisionOnRecord'
  <2>1. events' = reviews'
    BY DEF Commit, IInv, DecisionOnRecord, Review, Event
  <2> QED
    BY <1>3, <2>1 DEF Commit, DecisionOnRecord, Open, Closed
<1>5. AnswersFollow'
  BY <1>0, <1>3 DEF Commit, IInv, HandlersOK, AnswersFollow
<1> QED
  BY <1>1, <1>2, <1>4, <1>5 DEF IInv

LEMMA RedirectKeepsIInv ==
  ASSUME IInv, NEW r \in Requests, Redirect(r)
  PROVE  IInv'
<1>1. HandlersOK'
  BY DEF Redirect, IInv, HandlersOK
<1>2. LockHeldWhileOpen'
  BY DEF Redirect, IInv, HandlersOK, LockHeldWhileOpen, dbVars
<1>3. DecisionOnRecord'
  BY DEF Redirect, IInv, DecisionOnRecord, dbVars
<1>4. AnswersFollow'
  <2>1. \A v \in reviews : v.by \in Requests
    BY DEF IInv, DecisionOnRecord
  <2> QED
    BY <2>1 DEF Redirect, IInv, HandlersOK, AnswersFollow, dbVars
<1> QED
  BY <1>1, <1>2, <1>3, <1>4 DEF IInv

LEMMA AbortKeepsIInv ==
  ASSUME IInv, NEW r \in Requests, Abort(r)
  PROVE  IInv'
<1>1. HandlersOK'
  BY DEF Abort, IInv, HandlersOK
<1>2. LockHeldWhileOpen'
  BY ReviewAssumption DEF Abort, IInv, HandlersOK, LockHeldWhileOpen, dbVars
<1>3. DecisionOnRecord'
  BY DEF Abort, IInv, DecisionOnRecord, dbVars
<1>4. AnswersFollow'
  <2>1. \A v \in reviews : v.by # r /\ v.by \in Requests
    BY DEF Abort, IInv, DecisionOnRecord, AnswersFollow
  <2> QED
    BY <2>1 DEF Abort, IInv, HandlersOK, AnswersFollow, dbVars
<1> QED
  BY <1>1, <1>2, <1>3, <1>4 DEF IInv

LEMMA NextIInv ==
  IInv /\ [Next]_vars => IInv'
<1> SUFFICES ASSUME IInv, [Next]_vars PROVE IInv'
  OBVIOUS
<1> USE DEF IInv
<1>1. ASSUME UNCHANGED << dbVars, lock, pc, response >> PROVE IInv'
  BY <1>1 DEF HandlersOK, LockHeldWhileOpen, DecisionOnRecord, AnswersFollow, dbVars
<1>2. ASSUME NEW t \in Tabs, ReadCase(t) \/ ReadReviews(t) PROVE IInv'
  BY <1>1, <1>2 DEF ReadCase, ReadReviews
<1>3. CASE Expire
  BY <1>1, <1>3 DEF Expire
<1> HIDE DEF IInv
<1>4. ASSUME NEW r \in Requests, NEW t \in Tabs,
             NEW d \in VALID_DECISIONS \cup {InvalidDecision}, NEW o \in Overrides,
             Send(r, t, d, o)
      PROVE  IInv'
  BY <1>4, GoOnKeepsIInv DEF Send
<1>5. ASSUME NEW r \in Requests, Check(r) PROVE IInv'
  <2>1. pc[r] = "sent" /\ UNCHANGED << dbVars, lock >>
    BY <1>5 DEF Check
  <2>2. \/ \E code \in {403, 409, 422} : Answer(r, code)
        \/ pc' = [pc EXCEPT ![r] = "checked"] /\ UNCHANGED response
    BY <1>5 DEF Check
  <2> QED
    BY <2>1, <2>2, AnswerKeepsIInv, GoOnKeepsIInv
<1>6. ASSUME NEW r \in Requests, Finalize(r) PROVE IInv'
  <2>1. CASE lock # NoRequest /\ case.status = Open
    BY <1>6, <2>1, GoOnKeepsIInv DEF Finalize, Open
  <2>2. CASE ~ (lock # NoRequest /\ case.status = Open)
    BY <1>6, <2>2, UpdateKeepsIInv DEF Finalize, Open
  <2> QED
    BY <2>1, <2>2
<1>7. ASSUME NEW r \in Requests, Resume(r) PROVE IInv'
  BY <1>7, UpdateKeepsIInv DEF Resume
<1> QED
  BY <1>1, <1>2, <1>3, <1>4, <1>5, <1>6, <1>7, CommitKeepsIInv, RedirectKeepsIInv,
     AbortKeepsIInv
  DEF Next, Handle, vars

\* The lock discipline of the case row and what the answers given imply hold
\* throughout.
THEOREM Inductive == Spec => []IInv
  BY InitIInv, NextIInv, PTL DEF Spec

-----------------------------------------------------------------------------
\* However many reviewers press the button, in whatever order their
\* transactions run, wait and fail: the case is FINALIZED exactly when one
\* decision is on record, with its audit event and finalized_at.
THEOREM OneDecisionHolds == Spec => []OneDecision
<1>1. IInv => OneDecision
  <2> SUFFICES ASSUME IInv PROVE OneDecision
    OBVIOUS
  <2>1. events = reviews
    BY DEF IInv, DecisionOnRecord
  <2>2. CASE case = [status |-> Open, finalized |-> FALSE] /\ reviews = {}
    <3>1. /\ Cardinality(reviews) = 0 /\ case.finalized = FALSE
          /\ case.status # "FINALIZED"
      BY <2>2, FS_EmptySet DEF Open
    <3> QED
      BY <2>1, <3>1 DEF OneDecision
  <2>3. CASE case = [status |-> Closed, finalized |-> TRUE] /\ \E v : reviews = {v}
    <3>1. /\ Cardinality(reviews) = 1 /\ case.finalized = TRUE
          /\ case.status = "FINALIZED"
      BY <2>3, FS_Singleton DEF Closed
    <3> QED
      BY <2>1, <3>1 DEF OneDecision
  <2> QED
    BY <2>2, <2>3 DEF IInv, DecisionOnRecord
<1> QED
  BY <1>1, Inductive, PTL

\* A submission that is answered with an error leaves no review and no lock.
THEOREM FailuresLeaveNothing == Spec => []FailedLeavesNothing
<1>1. IInv => FailedLeavesNothing
  BY DEF IInv, HandlersOK, LockHeldWhileOpen, AnswersFollow, FailedLeavesNothing
<1> QED
  BY <1>1, Inductive, PTL

-----------------------------------------------------------------------------
\* The pages and forms.  A page whose case row was read as FINALIZED was read
\* after the commit; the token of the page a browser loaded last is in its
\* cookie until it expires.

PageType == [state : {"blank", "loading", "shown"}, token : Nat,
             status : {"none", Open, Closed}, reviewed : BOOLEAN]

PagesOK ==
  /\ issued \in Nat /\ expired \in Nat
  /\ page \in [Tabs -> PageType]
  /\ cookie \in [Browsers -> Nat] /\ latest \in [Browsers -> SUBSET Tabs]
  /\ \A t \in Tabs : page[t].status = Closed =>
       case.status = Closed /\ (page[t].state = "shown" => page[t].reviewed)
  /\ \A t \in Tabs : page[t].state = "shown" /\ latest[BrowserOf[t]] = {t} =>
       cookie[BrowserOf[t]] = page[t].token \/ page[t].token <= expired

FormsOK ==
  /\ DOMAIN form = Requests
  /\ \A r \in Requests :
       /\ form[r].token \in Nat /\ form[r].cookie \in Nat
       /\ form[r].fresh => form[r].cookie = form[r].token \/ form[r].token <= expired

LEMMA InitPages == Init => PagesOK /\ FormsOK
  BY ReviewAssumption DEF Init, PagesOK, FormsOK, PageType, Blank, NoForm, Open, Closed

LEMMA ReadCaseKeepsPages ==
  ASSUME IInv, PagesOK, FormsOK, NEW t \in Tabs, ReadCase(t)
  PROVE  PagesOK' /\ FormsOK'
<1>1. case.status \in {Open, Closed}
  BY DEF IInv, DecisionOnRecord
<1>2. [Blank EXCEPT !.state = "loading", !.status = case.status] \in PageType
  BY <1>1 DEF Blank, PageType
<1>3. /\ page' \in [Tabs -> PageType]
      /\ page'[t].state = "loading" /\ page'[t].status = case.status
      /\ \A u \in Tabs \ {t} : page'[u] = page[u]
  BY <1>2 DEF ReadCase, PagesOK, Blank
<1>4. PagesOK'
  BY <1>3 DEF ReadCase, PagesOK, dbVars
<1>5. FormsOK'
  BY DEF ReadCase, FormsOK
<1> QED
  BY <1>4, <1>5

LEMMA ReadReviewsKeepsPages ==
  ASSUME IInv, PagesOK, FormsOK, NEW t \in Tabs, ReadReviews(t)
  PROVE  PagesOK' /\ FormsOK'
<1> DEFINE b == BrowserOf[t]
<1>1. b \in Browsers /\ issued + 1 \in Nat
  BY ReviewAssumption DEF PagesOK
<1>2. (reviews # {}) \in BOOLEAN
  OBVIOUS
<1>3. [page[t] EXCEPT !.state = "shown", !.token = issued + 1,
                      !.reviewed = (reviews # {})] \in PageType
  BY <1>1, <1>2 DEF PagesOK, PageType
<1>4. /\ page' \in [Tabs -> PageType]
      /\ page'[t].status = page[t].status /\ page'[t].token = issued + 1
      /\ page'[t].reviewed = (reviews # {})
      /\ \A u \in Tabs \ {t} : page'[u] = page[u]
  BY <1>3 DEF ReadReviews, PagesOK, PageType
<1>5. /\ cookie' \in [Browsers -> Nat] /\ cookie'[b] = issued + 1
      /\ \A c \in Browsers \ {b} : cookie'[c] = cookie[c]
      /\ latest' \in [Browsers -> SUBSET Tabs] /\ latest'[b] = {t}
      /\ \A c \in Browsers \ {b} : latest'[c] = latest[c]
      /\ issued' \in Nat /\ UNCHANGED << case, expired, form >>
  BY <1>1 DEF ReadReviews, PagesOK, dbVars
<1>6. case.status = Closed => reviews # {}
  BY DEF IInv, DecisionOnRecord, Open, Closed
<1>7. \A u \in Tabs : page'[u].status = Closed =>
        case'.status = Closed /\ (page'[u].state = "shown" => page'[u].reviewed)
  BY <1>4, <1>5, <1>6 DEF PagesOK
<1>8. \A u \in Tabs : page'[u].state = "shown" /\ latest'[BrowserOf[u]] = {u} =>
        cookie'[BrowserOf[u]] = page'[u].token \/ page'[u].token <= expired'
  <2>1. \A u \in Tabs : BrowserOf[u] \in Browsers
    BY ReviewAssumption
  <2>2. ASSUME NEW u \in Tabs \ {t}, latest'[BrowserOf[u]] = {u}
        PROVE  BrowserOf[u] # b /\ latest[BrowserOf[u]] = {u}
               /\ cookie'[BrowserOf[u]] = cookie[BrowserOf[u]]
    BY <1>5, <2>1, <2>2
  <2>3. CASE BrowserOf[t] = b
    BY <1>4, <1>5, <2>2 DEF PagesOK
  <2> QED
    BY <2>3
<1>9. PagesOK'
  BY <1>4, <1>5, <1>7, <1>8 DEF PagesOK
<1>10. FormsOK'
  BY <1>5 DEF FormsOK
<1> QED
  BY <1>9, <1>10

LEMMA ExpireKeepsPages ==
  ASSUME PagesOK, FormsOK, Expire
  PROVE  PagesOK' /\ FormsOK'
<1>1. /\ expired' = expired + 1 /\ expired' \in Nat /\ expired \in Nat
      /\ cookie' \in [Browsers -> Nat]
      /\ \A b \in Browsers :
           cookie'[b] = IF cookie[b] <= expired' THEN 0 ELSE cookie[b]
      /\ UNCHANGED << case, issued, latest, page, form >>
  BY DEF Expire, PagesOK, dbVars
<1>2. \A t \in Tabs : BrowserOf[t] \in Browsers /\ page[t].token \in Nat
  BY ReviewAssumption DEF PagesOK, PageType
<1>3. PagesOK'
  BY <1>1, <1>2 DEF PagesOK
<1>4. FormsOK'
  BY <1>1 DEF FormsOK
<1> QED
  BY <1>3, <1>4

LEMMA SendKeepsPages ==
  ASSUME PagesOK, FormsOK, NEW r \in Requests, NEW t \in Tabs, NEW d, NEW o,
         Send(r, t, d, o)
  PROVE  PagesOK' /\ FormsOK'
<1>1. PagesOK'
  BY DEF Send, PagesOK, dbVars, browserVars
<1>2. /\ BrowserOf[t] \in Browsers /\ page[t].token \in Nat
      /\ cookie[BrowserOf[t]] \in Nat /\ page[t].state = "shown"
  BY ReviewAssumption DEF PagesOK, PageType, Send
<1>3. /\ DOMAIN form' = Requests
      /\ \A q \in Requests \ {r} : form'[q] = form[q]
      /\ form'[r].token = page[t].token /\ form'[r].cookie = cookie[BrowserOf[t]]
      /\ form'[r].fresh => latest[BrowserOf[t]] = {t}
  BY DEF Send, FormsOK
<1>4. UNCHANGED expired
  BY DEF Send, browserVars
<1>5. FormsOK'
  BY <1>2, <1>3, <1>4 DEF FormsOK, PagesOK
<1> QED
  BY <1>1, <1>5

\* The handlers touch no page, and a request's form only to drop it.
LEMMA HandlersKeepPages ==
  ASSUME IInv, IInv', PagesOK, FormsOK, NEW r \in Requests, Handle(r) \/ Abort(r)
  PROVE  PagesOK' /\ FormsOK'
<1>1. UNCHANGED browserVars /\ form' \in {form, [form EXCEPT ![r] = NoForm]}
  BY DEF Handle, Check, Finalize, Resume, Update, Commit, Redirect, Abort, Answer
<1>2. case.status = Closed => case'.status = Closed
  BY DEF Handle, Check, Finalize, Resume, Commit, Redirect, Abort, dbVars, Closed
<1>3. PagesOK'
  BY <1>1, <1>2 DEF PagesOK, browserVars
<1>4. FormsOK'
  BY <1>1 DEF FormsOK, PagesOK, NoForm, browserVars
<1> QED
  BY <1>3, <1>4

LEMMA NextPages ==
  ASSUME IInv, IInv', PagesOK, FormsOK, [Next]_vars
  PROVE  PagesOK' /\ FormsOK'
<1>1. CASE UNCHANGED vars
  BY <1>1 DEF vars, dbVars, browserVars, PagesOK, FormsOK
<1> QED
  BY <1>1, ReadCaseKeepsPages, ReadReviewsKeepsPages, ExpireKeepsPages, SendKeepsPages,
     HandlersKeepPages DEF Next

\* What the pages being read and the forms sent carry is never ahead of the
\* database or of the browser's cookie.
THEOREM PagesInductive == Spec => [](PagesOK /\ FormsOK)
  BY InitPages, NextPages, Inductive, PTL DEF Spec

\* A page that shows the case as finalized shows the decision, for any number
\* of tabs and however its statements fall between the commits.
THEOREM PageShowsDecision == Spec => []FinalizedPageShowsReview
<1>1. PagesOK => FinalizedPageShowsReview
  BY DEF PagesOK, FinalizedPageShowsReview, Closed
<1> QED
  BY <1>1, PagesInductive, PTL

\* The form of the page a browser loaded last is refused only once its token
\* has expired, for any number of tabs that share its cookie.
THEOREM LatestFormHolds == Spec => LatestFormIsAccepted
<1>1. ASSUME IInv, PagesOK, FormsOK, [Next]_vars,
             NEW r \in Requests, response[r] = 0, response'[r] = 403
      PROVE  ~ form[r].fresh \/ form[r].token <= expired
  <2>1. ASSUME NEW q \in Requests, NEW code, response' = [response EXCEPT ![q] = code]
        PROVE  q = r /\ code = 403
    BY <1>1, <2>1 DEF IInv, HandlersOK
  <2>2. ~ UNCHANGED response
    BY <1>1
  <2>3. PICK q \in Requests : Handle(q) \/ Abort(q)
    BY <1>1, <2>2 DEF Next, vars, ReadCase, ReadReviews, Expire, Send
  <2>4. Check(q)
    <3>1. response \in [Requests -> {0, 303, 403, 409, 422, 500}]
      BY <1>1 DEF IInv, HandlersOK
    <3>2. CASE Finalize(q) \/ Resume(q)
      <4>1. Update(q) \/ UNCHANGED response
        BY <3>2 DEF Finalize, Resume
      <4>2. Answer(q, 409) \/ Answer(q, 500) \/ UNCHANGED response
        BY <4>1 DEF Update
      <4> QED
        BY <2>1, <2>2, <4>2 DEF Answer
    <3>3. CASE Commit(q)
      BY <2>2, <3>3 DEF Commit
    <3>4. CASE Redirect(q)
      BY <1>1, <3>1, <3>4 DEF Redirect
    <3>5. CASE Abort(q)
      <4>1. response' = [response EXCEPT ![q] = IF response[q] = 0 THEN 500 ELSE response[q]]
        BY <3>5 DEF Abort
      <4>2. response'[r] = IF r = q /\ response[q] = 0 THEN 500 ELSE response[r]
        BY <3>1, <4>1
      <4> QED
        BY <1>1, <4>2
    <3> QED
      BY <2>3, <3>2, <3>3, <3>4, <3>5 DEF Handle
  <2>5. \/ ~ verify_csrf(q) /\ Answer(q, 403)
        \/ Answer(q, 422) \/ Answer(q, 409) \/ UNCHANGED response
    BY <2>4 DEF Check
  <2>6. ~ verify_csrf(r)
    BY <2>1, <2>2, <2>5 DEF Answer
  <2> QED
    BY <1>1, <2>6 DEF verify_csrf, FormsOK, PagesOK
<1>2. IInv /\ PagesOK /\ FormsOK /\ [Next]_vars =>
        [\A r \in Requests : response[r] = 0 /\ response'[r] = 403 =>
           ~ form[r].fresh \/ form[r].token <= expired]_vars
  BY <1>1
<1> QED
  BY <1>2, Inductive, PagesInductive, PTL DEF Spec, LatestFormIsAccepted

-----------------------------------------------------------------------------
\* The abstract decision.  winner, promised and told are what Decision!Spec is
\* given for its variables.

winner == IF reviews = {} THEN NoRequest ELSE (CHOOSE v \in reviews : TRUE).by
promised == IF lock # NoRequest /\ response[lock] # 0 THEN lock ELSE NoRequest
Said(code) == CASE code = 0   -> "nothing"
                [] code = 303 -> "recorded"
                [] code = 409 -> "conflict"
                [] code \in {403, 422, 500} -> "refused"
told == [r \in Requests |-> Said(response[r])]

\* Nobody is told anything before the UPDATE of the request is answered, and a
\* handler that has committed without an answer is that of the decision.
ToldAfterUpdate ==
  /\ \A r \in Requests : pc[r] \in {"unsent", "sent", "checked", "waiting"} => response[r] = 0
  /\ \A r \in Requests : pc[r] = "committed" => winner = r

LEMMA ChooseOnly == \A x : (CHOOSE v \in {x} : TRUE) = x
  OBVIOUS

Answered(r, code) == response' = [response EXCEPT ![r] = code]

LEMMA AnswerTells ==
  ASSUME HandlersOK, NEW r \in Requests, NEW code, Answered(r, code)
  PROVE  told' = [told EXCEPT ![r] = Said(code)]
<1>1. \A q \in Requests : response'[q] = IF q = r THEN code ELSE response[q]
  BY DEF HandlersOK, Answered
<1>2. \A q \in Requests : told[q] = Said(response[q]) /\ told'[q] = Said(response'[q])
  BY DEF told
<1>3. told'[r] = Said(code) /\ \A q \in Requests \ {r} : told'[q] = told[q]
  BY <1>1, <1>2
<1>4. told = [q \in Requests |-> told[q]] /\ told' = [q \in Requests |-> told'[q]]
  BY DEF told
<1> QED
  BY <1>3, <1>4

\* An answer to a request that does not hold the row breaks and makes no promise.
LEMMA AnswerKeepsPromise ==
  ASSUME HandlersOK, NEW r \in Requests, NEW code, Answered(r, code),
         lock # r, UNCHANGED lock, lock \in Requests \cup {NoRequest}
  PROVE  promised' = promised
  BY DEF HandlersOK, Answered, promised

\* Decision!Spec speaks of winner, promised and told.
LEMMA AbstractState ==
  /\ Decision!vars = << winner, promised, told >>
  /\ Decision!Init <=> /\ winner = NoRequest
                      /\ promised = NoRequest
                      /\ told = [r \in Requests |-> "nothing"]
  BY DEF Decision!vars, Decision!Init, winner, promised, told, Said

LEMMA AbstractTell ==
  ASSUME NEW r, NEW answer
  PROVE  Decision!Tell(r, answer) <=>
           /\ told[r] = "nothing"
           /\ told' = [told EXCEPT ![r] = answer]
           /\ winner' = winner
  BY DEF Decision!Tell, winner, told, Said

LEMMA AbstractDecide ==
  ASSUME NEW r
  PROVE  Decision!Decide(r) <=>
           /\ winner = NoRequest
           /\ IF promised = NoRequest THEN told[r] = "nothing" ELSE promised = r
           /\ winner' = r /\ promised' = NoRequest /\ told' = told
  BY DEF Decision!Decide, winner, promised, told, Said

LEMMA AbstractPromises ==
  ASSUME NEW r
  PROVE  /\ Decision!Promise(r) <=>
              /\ winner = NoRequest /\ promised = NoRequest
              /\ Decision!Tell(r, "recorded") /\ promised' = r
         /\ Decision!Break(r) <=>
              /\ promised = r /\ promised' = NoRequest
              /\ winner' = winner /\ told' = told
  BY DEF Decision!Promise, Decision!Break, winner, promised, told, Said

LEMMA AbstractAnswers ==
  ASSUME NEW r
  PROVE  /\ Decision!Confirm(r) <=>
              winner = r /\ Decision!Tell(r, "recorded") /\ promised' = promised
         /\ Decision!Beat(r) <=>
              /\ winner \notin {NoRequest, r}
              /\ Decision!Tell(r, "conflict") /\ promised' = promised
         /\ Decision!Refuse(r) <=>
              winner # r /\ Decision!Tell(r, "refused") /\ promised' = promised
  BY DEF Decision!Confirm, Decision!Beat, Decision!Refuse, winner, promised

LEMMA StepKeepsToldAfterUpdate ==
  ASSUME IInv, IInv', ToldAfterUpdate, [Next]_vars
  PROVE  ToldAfterUpdate'
<1> USE DEF IInv, HandlersOK
<1>1. ASSUME UNCHANGED << reviews, pc, response >> PROVE ToldAfterUpdate'
  BY <1>1 DEF ToldAfterUpdate, winner
<1>2. ASSUME NEW r \in Requests, NEW code \in {303, 403, 409, 422, 500}, Answer(r, code),
             UNCHANGED reviews
      PROVE  ToldAfterUpdate'
  BY <1>2 DEF ToldAfterUpdate, winner, Answer
<1>3. ASSUME NEW r \in Requests, NEW to \in {"sent", "checked", "waiting", "updated"},
             pc[r] \in {"unsent", "sent", "checked", "waiting"},
             pc' = [pc EXCEPT ![r] = to], UNCHANGED << reviews, response >>
      PROVE  ToldAfterUpdate'
  BY <1>3 DEF ToldAfterUpdate, winner
<1>4. ASSUME NEW r \in Requests, pc[r] \in {"checked", "waiting"}, Update(r),
             UNCHANGED reviews
      PROVE  ToldAfterUpdate'
  BY <1>2, <1>3, <1>4 DEF Update
<1>5. ASSUME NEW t \in Tabs, ReadCase(t) \/ ReadReviews(t) PROVE ToldAfterUpdate'
  BY <1>1, <1>5 DEF ReadCase, ReadReviews, dbVars
<1>6. CASE Expire
  BY <1>1, <1>6 DEF Expire, dbVars
<1>7. ASSUME NEW r \in Requests, NEW t \in Tabs,
             NEW d \in VALID_DECISIONS \cup {InvalidDecision}, NEW o \in Overrides,
             Send(r, t, d, o)
      PROVE  ToldAfterUpdate'
  BY <1>3, <1>7 DEF Send, dbVars
<1>8. ASSUME NEW r \in Requests, Check(r) PROVE ToldAfterUpdate'
  BY <1>2, <1>3, <1>8 DEF Check, dbVars
<1>9. ASSUME NEW r \in Requests, Finalize(r) \/ Resume(r) PROVE ToldAfterUpdate'
  BY <1>3, <1>4, <1>9 DEF Finalize, Resume, dbVars
<1>10. ASSUME NEW r \in Requests, Commit(r) PROVE ToldAfterUpdate'
  <2>1. lock = r /\ reviews = {}
    BY <1>10, ReviewAssumption
    DEF Commit, LockHeldWhileOpen, DecisionOnRecord, Open, Closed
  <2>2. reviews' = {Review(r)} /\ Review(r).by = r
    BY <1>10, <2>1 DEF Commit, Review
  <2>3. winner' = r
    BY <2>2, ChooseOnly DEF winner
  <2>4. \A q \in Requests : pc[q] # "committed"
    BY <2>1, ReviewAssumption DEF ToldAfterUpdate, winner
  <2> QED
    BY <1>10, <2>3, <2>4 DEF Commit, ToldAfterUpdate
<1>11. ASSUME NEW r \in Requests, Redirect(r) PROVE ToldAfterUpdate'
  BY <1>11 DEF Redirect, ToldAfterUpdate, winner, dbVars
<1>12. ASSUME NEW r \in Requests, Abort(r) PROVE ToldAfterUpdate'
  BY <1>12 DEF Abort, ToldAfterUpdate, winner, dbVars
<1> QED
  BY <1>1, <1>5, <1>6, <1>7, <1>8, <1>9, <1>10, <1>11, <1>12 DEF Next, Handle, vars, dbVars

LEMMA SaidValues ==
  /\ Said(0) = "nothing" /\ Said(303) = "recorded" /\ Said(409) = "conflict"
  /\ Said(403) = "refused" /\ Said(422) = "refused" /\ Said(500) = "refused"
  BY DEF Said

\* An answer that tells the truth is one step of the abstract decision.
LEMMA AnswerDecides ==
  ASSUME HandlersOK, NEW r \in Requests, response[r] = 0, UNCHANGED reviews,
         promised' = promised, NEW code, Answered(r, code),
         \/ code = 303 /\ winner = r
         \/ code = 409 /\ winner \notin {NoRequest, r}
         \/ code \in {403, 422, 500} /\ winner # r
  PROVE  Decision!Next
<1>1. winner' = winner
  BY DEF winner
<1>2. told[r] = "nothing"
  BY SaidValues DEF told
<1>3. told' = [told EXCEPT ![r] = Said(code)]
  BY AnswerTells
<1>4. CASE code = 303 /\ winner = r
  <2>1. Said(code) = "recorded"
    BY <1>4, SaidValues
  <2>2. told' = [told EXCEPT ![r] = "recorded"]
    BY <1>3, <2>1
  <2>3. Decision!Tell(r, "recorded")
    BY <1>1, <1>2, <2>2, AbstractTell
  <2>4. Decision!Confirm(r)
    BY <1>4, <2>3, AbstractAnswers
  <2> QED
    BY <2>4 DEF Decision!Next
<1>5. CASE code = 409 /\ winner \notin {NoRequest, r}
  <2>1. Said(code) = "conflict"
    BY <1>5, SaidValues
  <2>2. told' = [told EXCEPT ![r] = "conflict"]
    BY <1>3, <2>1
  <2>3. Decision!Tell(r, "conflict")
    BY <1>1, <1>2, <2>2, AbstractTell
  <2>4. Decision!Beat(r)
    BY <1>5, <2>3, AbstractAnswers
  <2> QED
    BY <2>4 DEF Decision!Next
<1>6. CASE code \in {403, 422, 500} /\ winner # r
  <2>1. Said(code) = "refused"
    BY <1>6, SaidValues
  <2>2. told' = [told EXCEPT ![r] = "refused"]
    BY <1>3, <2>1
  <2>3. Decision!Tell(r, "refused")
    BY <1>1, <1>2, <2>2, AbstractTell
  <2>4. Decision!Refuse(r)
    BY <1>6, <2>3, AbstractAnswers
  <2> QED
    BY <2>4 DEF Decision!Next
<1> QED
  BY <1>4, <1>5, <1>6

\* Every step makes one step of the abstract decision, or none.
LEMMA StepDecides ==
  ASSUME IInv, ToldAfterUpdate, [Next]_vars
  PROVE  Decision!Next \/ UNCHANGED << winner, promised, told >>
<1> USE DEF IInv
<1>1. ASSUME UNCHANGED << reviews, lock, response >>
      PROVE  UNCHANGED << winner, promised, told >>
  BY <1>1 DEF winner, promised, told
<1>2. \A r \in Requests : response[r] = 0 => told[r] = "nothing"
  BY SaidValues DEF told
<1>3. ASSUME NEW r \in Requests, pc[r] \in {"sent", "checked", "waiting", "updated"},
             response[r] = 0
      PROVE  /\ winner # r
             /\ case.status # Open => winner # NoRequest
  <2>1. CASE case = [status |-> Open, finalized |-> FALSE] /\ reviews = {}
    BY <2>1, ReviewAssumption DEF winner
  <2>2. CASE /\ case = [status |-> Closed, finalized |-> TRUE]
             /\ \E v : reviews = {v} /\ v.by \in Requests
    <3>1. PICK v : reviews = {v} /\ v.by \in Requests
      BY <2>2
    <3>2. winner = v.by
      BY <3>1, ChooseOnly DEF winner
    <3> QED
      BY <1>3, <3>1, <3>2, ReviewAssumption DEF AnswersFollow
  <2> QED
    BY <2>1, <2>2 DEF DecisionOnRecord
<1>a. ASSUME NEW r \in Requests, pc[r] \in {"sent", "checked", "waiting"}
      PROVE  response[r] = 0 /\ lock # r
  BY <1>a DEF ToldAfterUpdate, LockHeldWhileOpen
<1>b. ASSUME NEW r \in Requests, lock # r, UNCHANGED lock, NEW code, Answered(r, code)
      PROVE  promised' = promised
  BY <1>b, AnswerKeepsPromise DEF LockHeldWhileOpen
<1>4. ASSUME NEW t \in Tabs, ReadCase(t) \/ ReadReviews(t)
      PROVE  UNCHANGED << winner, promised, told >>
  BY <1>1, <1>4 DEF ReadCase, ReadReviews, dbVars
<1>5. CASE Expire
  BY <1>1, <1>5 DEF Expire, dbVars
<1>6. ASSUME NEW r \in Requests, NEW t \in Tabs,
             NEW d \in VALID_DECISIONS \cup {InvalidDecision}, NEW o \in Overrides,
             Send(r, t, d, o)
      PROVE  UNCHANGED << winner, promised, told >>
  BY <1>1, <1>6 DEF Send, dbVars
<1>7. ASSUME NEW r \in Requests, Check(r)
      PROVE  Decision!Next \/ UNCHANGED << winner, promised, told >>
  <2>1. pc[r] = "sent" /\ UNCHANGED << reviews, lock >>
    BY <1>7 DEF Check, dbVars
  <2>2. \/ Answer(r, 403) \/ Answer(r, 422)
        \/ Answer(r, 409) /\ case.status # Open
        \/ UNCHANGED response
    BY <1>7 DEF Check, Open
  <2>3. CASE UNCHANGED response
    BY <1>1, <2>1, <2>3
  <2>4. ASSUME NEW code \in {403, 422}, Answer(r, code) PROVE Decision!Next
    <3>1. Answered(r, code)
      BY <2>4 DEF Answer, Answered
    <3>2. promised' = promised
      BY <1>a, <1>b, <2>1, <3>1
    <3> QED
      BY <1>3, <1>a, <2>1, <2>4, <3>1, <3>2, AnswerDecides
  <2>5. CASE Answer(r, 409) /\ case.status # Open
    <3>1. Answered(r, 409)
      BY <2>5 DEF Answer, Answered
    <3>2. promised' = promised
      BY <1>a, <1>b, <2>1, <3>1
    <3> QED
      BY <1>3, <1>a, <2>1, <2>5, <3>1, <3>2, AnswerDecides
  <2> QED
    BY <2>2, <2>3, <2>4, <2>5
<1>8. ASSUME NEW r \in Requests, Finalize(r) \/ Resume(r)
      PROVE  Decision!Next \/ UNCHANGED << winner, promised, told >>
  <2>1. pc[r] \in {"checked", "waiting"} /\ UNCHANGED reviews
    BY <1>8 DEF Finalize, Resume, dbVars
  <2>2. \/ UNCHANGED << lock, response >>
        \/ Update(r) /\ (lock = NoRequest \/ case.status # Open)
    BY <1>8 DEF Finalize, Resume, Open
  <2>3. \/ Answer(r, 409) /\ case.status # Open /\ UNCHANGED lock
        \/ Answer(r, 500) /\ UNCHANGED lock
        \/ lock = NoRequest /\ lock' = r /\ UNCHANGED response
        \/ UNCHANGED << lock, response >>
    BY <2>2 DEF Update, Open
  <2>4. CASE UNCHANGED << lock, response >>
    BY <1>1, <2>1, <2>4
  <2>5. CASE Answer(r, 500) /\ UNCHANGED lock
    <3>1. Answered(r, 500)
      BY <2>5 DEF Answer, Answered
    <3>2. promised' = promised
      BY <1>a, <1>b, <2>1, <2>5, <3>1
    <3> QED
      BY <1>3, <1>a, <2>1, <2>5, <3>1, <3>2, AnswerDecides
  <2>6. CASE Answer(r, 409) /\ case.status # Open /\ UNCHANGED lock
    <3>1. Answered(r, 409)
      BY <2>6 DEF Answer, Answered
    <3>2. promised' = promised
      BY <1>a, <1>b, <2>1, <2>6, <3>1
    <3> QED
      BY <1>3, <1>a, <2>1, <2>6, <3>1, <3>2, AnswerDecides
  <2>7. CASE lock = NoRequest /\ lock' = r /\ UNCHANGED response
    <3>1. response[r] = 0
      BY <1>a, <2>1
    <3>2. promised = NoRequest /\ promised' = NoRequest
      BY <2>7, <3>1 DEF promised
    <3> QED
      BY <2>1, <2>7, <3>2 DEF winner, told
  <2> QED
    BY <2>3, <2>4, <2>5, <2>6, <2>7
<1>9. ASSUME NEW r \in Requests, Commit(r) PROVE Decision!Next
  <2>1. pc[r] = "updated" /\ lock = r /\ lock' = NoRequest
    BY <1>9 DEF Commit, LockHeldWhileOpen
  <2>2. reviews = {} /\ winner = NoRequest
    BY <2>1, ReviewAssumption
    DEF LockHeldWhileOpen, DecisionOnRecord, winner, Open, Closed
  <2>3. reviews' = {Review(r)} /\ Review(r).by = r
    BY <1>9, <2>2 DEF Commit, Review
  <2>4. winner' = r /\ told' = told /\ promised' = NoRequest
    BY <1>9, <2>1, <2>3, ChooseOnly DEF Commit, winner, told, promised
  <2>5. IF promised = NoRequest THEN told[r] = "nothing" ELSE promised = r
    <3>1. CASE response[r] = 0
      <4>1. promised = NoRequest
        BY <2>1, <3>1 DEF promised
      <4> QED
        BY <1>2, <3>1, <4>1
    <3>2. CASE response[r] # 0
      <4>1. promised = r /\ promised # NoRequest
        BY <2>1, <3>2, ReviewAssumption DEF promised
      <4> QED
        BY <4>1
    <3> QED
      BY <3>1, <3>2
  <2> QED
    BY <2>2, <2>4, <2>5, AbstractDecide DEF Decision!Next
<1>10. ASSUME NEW r \in Requests, Redirect(r) PROVE Decision!Next
  <2>1. /\ response[r] = 0 /\ pc[r] \in {"committed", "updated"}
        /\ Answered(r, 303) /\ UNCHANGED << reviews, lock >>
    BY <1>10 DEF Redirect, Answered, dbVars
  <2>2. CASE pc[r] = "committed"
    <3>1. winner = r /\ lock # r
      BY <2>2 DEF ToldAfterUpdate, LockHeldWhileOpen
    <3>2. promised' = promised
      BY <1>b, <2>1, <3>1
    <3> QED
      BY <2>1, <3>1, <3>2, AnswerDecides
  <2>3. CASE pc[r] = "updated"
    <3>1. lock = r /\ winner = NoRequest /\ winner' = NoRequest
      BY <2>1, <2>3, ReviewAssumption
      DEF LockHeldWhileOpen, DecisionOnRecord, winner, Open, Closed
    <3>2. promised = NoRequest
      BY <2>1, <3>1 DEF promised
    <3>3. response'[r] = 303
      BY <2>1 DEF Answered, HandlersOK
    <3>4. promised' = r
      BY <2>1, <3>1, <3>3, ReviewAssumption DEF promised
    <3>5. told[r] = "nothing" /\ told' = [told EXCEPT ![r] = "recorded"]
      BY <1>2, <2>1, AnswerTells, SaidValues
    <3>6. Decision!Tell(r, "recorded")
      BY <3>1, <3>5, AbstractTell
    <3>7. Decision!Promise(r)
      BY <3>1, <3>2, <3>4, <3>6, AbstractPromises
    <3> QED
      BY <3>7 DEF Decision!Next
  <2> QED
    BY <2>1, <2>2, <2>3
<1>11. ASSUME NEW r \in Requests, Abort(r) PROVE Decision!Next
  <2>1. /\ pc[r] \in {"sent", "checked", "waiting", "updated"} /\ UNCHANGED reviews
        /\ response' = [response EXCEPT ![r] = IF @ = 0 THEN 500 ELSE @]
        /\ lock' = IF lock = r THEN NoRequest ELSE lock
    BY <1>11 DEF Abort, dbVars
  <2>2. CASE response[r] = 0
    <3>1. Answered(r, 500)
      BY <2>1, <2>2 DEF Answered
    <3>2. winner # r
      BY <1>3, <2>1, <2>2
    <3>3. CASE lock = r
      <4>1. promised = NoRequest /\ promised' = NoRequest
        BY <2>1, <2>2, <3>3 DEF promised
      <4> QED
        BY <2>1, <2>2, <3>1, <3>2, <4>1, AnswerDecides
    <3>4. CASE lock # r
      <4>1. promised' = promised
        BY <1>b, <2>1, <3>1, <3>4
      <4> QED
        BY <2>1, <2>2, <3>1, <3>2, <4>1, AnswerDecides
    <3> QED
      BY <3>3, <3>4
  <2>3. CASE response[r] # 0
    <3>1. lock = r /\ lock' = NoRequest
      BY <1>a, <2>1, <2>3 DEF LockHeldWhileOpen
    <3>2. promised = r /\ promised' = NoRequest
      BY <2>3, <3>1, ReviewAssumption DEF promised
    <3>3. response' = response
      BY <2>1, <2>3 DEF HandlersOK
    <3>4. winner' = winner /\ told' = told
      BY <2>1, <3>3 DEF winner, told
    <3>5. Decision!Break(r)
      BY <3>2, <3>4, AbstractPromises
    <3> QED
      BY <3>5 DEF Decision!Next
  <2> QED
    BY <2>2, <2>3
<1> QED
  BY <1>1, <1>4, <1>5, <1>6, <1>7, <1>8, <1>9, <1>10, <1>11 DEF Next, Handle, vars, dbVars

\* Whether get_db commits before the response is sent or after it, any number
\* of reviewers see one decision for good; a 409 is given only once another one
\* is on record, and a 303 only to the request on record or to the one that
\* will be next, unless its own commit fails.
THEOREM ReviewRefinement == Spec => ImplementsReviewDecision
<1>1. Init => ToldAfterUpdate /\ Decision!Init
  BY AbstractState DEF Init, ToldAfterUpdate, winner, promised, told, Said
<1>2. IInv /\ IInv' /\ ToldAfterUpdate /\ [Next]_vars => ToldAfterUpdate'
  BY StepKeepsToldAfterUpdate
<1>3. IInv /\ ToldAfterUpdate /\ [Next]_vars => [Decision!Next]_(Decision!vars)
  <2>1. UNCHANGED << winner, promised, told >> => UNCHANGED Decision!vars
    BY DEF Decision!vars, winner, promised, told, Said
  <2> QED
    BY <2>1, StepDecides
<1> QED
  BY <1>1, <1>2, <1>3, Inductive, PTL DEF Spec, ImplementsReviewDecision, Decision!Spec

-----------------------------------------------------------------------------
\* Types.  What is recorded has a valid decision because a handler that is past
\* the check has one (DecisionsChecked).

PageUpTo(n) == [state : {"blank", "loading", "shown"}, token : 0 .. n,
                status : {"none", "AWAITING_HUMAN_REVIEW", "FINALIZED"},
                reviewed : BOOLEAN]
FormUpTo(n) == [token : 0 .. n, cookie : 0 .. n,
                decision : VALID_DECISIONS \cup {InvalidDecision},
                overrides : Overrides, fresh : BOOLEAN]

DecisionsChecked ==
  \A r \in Requests : pc[r] \in {"checked", "waiting", "updated"} =>
                        form[r].decision \in VALID_DECISIONS

TypeInv == TypeOK /\ DecisionsChecked

Records == [by : Requests, decision : VALID_DECISIONS, overrides : SUBSET Findings]

DatabaseTypes ==
  /\ case \in [status : {"AWAITING_HUMAN_REVIEW", "FINALIZED"}, finalized : BOOLEAN]
  /\ reviews \subseteq Records /\ events \subseteq Records
  /\ lock \in Requests \cup {NoRequest}

BrowserTypes ==
  /\ issued \in 0 .. MaxTokens /\ expired \in 0 .. issued
  /\ cookie \in [Browsers -> 0 .. issued]
  /\ latest \in [Browsers -> SUBSET Tabs]
  /\ page \in [Tabs -> PageUpTo(issued)]

HandlerTypes ==
  /\ form \in [Requests -> FormUpTo(issued)]
  /\ pc \in [Requests -> {"unsent", "sent", "checked", "waiting", "updated",
                          "committed", "done"}]
  /\ response \in [Requests -> {0, 303, 403, 409, 422, 500}]

LEMMA TypeParts == TypeOK <=> DatabaseTypes /\ BrowserTypes /\ HandlerTypes
  BY DEF TypeOK, DatabaseTypes, BrowserTypes, HandlerTypes, Records, PageUpTo, FormUpTo

LEMMA EmptyForm == /\ \A n \in Nat : NoForm \in FormUpTo(n)
                   /\ NoForm.decision = InvalidDecision
<1>1. << >> \in [1 .. 0 -> AllFindings] /\ 0 \in 0 .. MaxOverrides
  BY ReviewAssumption
<1>2. << >> \in Overrides
  BY <1>1 DEF Overrides
<1> QED
  BY <1>2 DEF NoForm, FormUpTo

LEMMA MoreTokens ==
  ASSUME NEW n \in Nat
  PROVE  PageUpTo(n) \subseteq PageUpTo(n + 1) /\ FormUpTo(n) \subseteq FormUpTo(n + 1)
         /\ 0 .. n \subseteq 0 .. n + 1
  BY DEF PageUpTo, FormUpTo

LEMMA InitTypeInv == Init => TypeInv
<1> SUFFICES ASSUME Init PROVE TypeInv
  OBVIOUS
<1>1. Blank \in PageUpTo(0)
  BY DEF Blank, PageUpTo
<1>2. DatabaseTypes
  BY DEF Init, DatabaseTypes
<1>3. BrowserTypes
  BY <1>1, ReviewAssumption DEF Init, BrowserTypes
<1>4. HandlerTypes
  BY EmptyForm DEF Init, HandlerTypes
<1> QED
  BY <1>2, <1>3, <1>4, TypeParts DEF Init, TypeInv, DecisionsChecked

LEMMA TypePartsNext ==
  TypeInv' <=> DatabaseTypes' /\ BrowserTypes' /\ HandlerTypes' /\ DecisionsChecked'
  BY DEF TypeInv, TypeOK, DatabaseTypes, BrowserTypes, HandlerTypes, Records, PageUpTo,
     FormUpTo

LEMMA ReadCaseKeepsTypes ==
  ASSUME TypeInv, NEW t \in Tabs, ReadCase(t) PROVE TypeInv'
<1>1. DatabaseTypes /\ BrowserTypes /\ HandlerTypes
  BY TypeParts DEF TypeInv
<1>2. /\ case.status \in {"AWAITING_HUMAN_REVIEW", "FINALIZED"}
      /\ 0 \in 0 .. issued
  BY <1>1, ReviewAssumption DEF DatabaseTypes, BrowserTypes
<1>3. [Blank EXCEPT !.state = "loading", !.status = case.status] \in PageUpTo(issued)
  BY <1>2 DEF Blank, PageUpTo
<1>4. BrowserTypes'
  BY <1>1, <1>3 DEF BrowserTypes, ReadCase
<1>5. DatabaseTypes' /\ HandlerTypes' /\ DecisionsChecked'
  BY <1>1 DEF DatabaseTypes, HandlerTypes, ReadCase, dbVars, TypeInv, DecisionsChecked
<1> QED
  BY <1>4, <1>5, TypePartsNext

LEMMA ReadReviewsKeepsTypes ==
  ASSUME TypeInv, NEW t \in Tabs, ReadReviews(t) PROVE TypeInv'
<1>1. DatabaseTypes /\ BrowserTypes /\ HandlerTypes
  BY TypeParts DEF TypeInv
<1>2. issued \in Nat /\ issued' = issued + 1 /\ issued' \in 0 .. MaxTokens
      /\ BrowserOf[t] \in Browsers
  BY <1>1, ReviewAssumption DEF BrowserTypes, ReadReviews
<1>3. /\ page[t] \in PageUpTo(issued + 1) /\ issued + 1 \in 0 .. issued + 1
      /\ (reviews # {}) \in BOOLEAN
  BY <1>1, <1>2, MoreTokens DEF BrowserTypes
<1>4. [page[t] EXCEPT !.state = "shown", !.token = issued + 1,
                      !.reviewed = (reviews # {})] \in PageUpTo(issued + 1)
  BY <1>3 DEF PageUpTo
<1>5. page' \in [Tabs -> PageUpTo(issued + 1)]
  BY <1>1, <1>2, <1>4, MoreTokens DEF BrowserTypes, ReadReviews
<1>6. cookie' \in [Browsers -> 0 .. issued + 1] /\ latest' \in [Browsers -> SUBSET Tabs]
  BY <1>1, <1>2, <1>3, MoreTokens DEF BrowserTypes, ReadReviews
<1>7. BrowserTypes'
  BY <1>1, <1>2, <1>5, <1>6 DEF BrowserTypes, ReadReviews
<1>8. HandlerTypes'
  BY <1>1, <1>2, MoreTokens DEF HandlerTypes, ReadReviews
<1>9. DatabaseTypes' /\ DecisionsChecked'
  BY <1>1 DEF DatabaseTypes, ReadReviews, dbVars, TypeInv, DecisionsChecked
<1> QED
  BY <1>7, <1>8, <1>9, TypePartsNext

LEMMA ExpireKeepsTypes == ASSUME TypeInv, Expire PROVE TypeInv'
<1>1. DatabaseTypes /\ BrowserTypes /\ HandlerTypes
  BY TypeParts DEF TypeInv
<1>2. issued \in Nat /\ 0 \in 0 .. issued /\ expired' \in 0 .. issued /\ issued' = issued
  BY <1>1, ReviewAssumption DEF BrowserTypes, Expire
<1>3. cookie' \in [Browsers -> 0 .. issued]
  BY <1>1, <1>2 DEF BrowserTypes, Expire
<1>4. BrowserTypes'
  BY <1>1, <1>2, <1>3 DEF BrowserTypes, Expire
<1>5. DatabaseTypes' /\ HandlerTypes' /\ DecisionsChecked'
  BY <1>1 DEF DatabaseTypes, HandlerTypes, Expire, dbVars, TypeInv, DecisionsChecked
<1> QED
  BY <1>4, <1>5, TypePartsNext

LEMMA SendKeepsTypes ==
  ASSUME TypeInv, NEW r \in Requests, NEW t \in Tabs,
         NEW d \in VALID_DECISIONS \cup {InvalidDecision}, NEW o \in Overrides,
         Send(r, t, d, o)
  PROVE  TypeInv'
<1> DEFINE b == BrowserOf[t]
           sent == [token |-> page[t].token, cookie |-> cookie[b], decision |-> d,
                    overrides |-> o, fresh |-> latest[b] = {t}]
<1>1. DatabaseTypes /\ BrowserTypes /\ HandlerTypes
  BY TypeParts DEF TypeInv
<1>2. /\ page[t].token \in 0 .. issued /\ cookie[b] \in 0 .. issued
      /\ (latest[b] = {t}) \in BOOLEAN
  BY <1>1, ReviewAssumption DEF BrowserTypes, PageUpTo
<1>3. sent \in FormUpTo(issued)
  BY <1>2 DEF FormUpTo
<1>4. form' = [form EXCEPT ![r] = sent]
  BY DEF Send
<1> HIDE DEF sent
<1>5. HandlerTypes'
  BY <1>1, <1>3, <1>4 DEF HandlerTypes, Send, browserVars
<1>6. DatabaseTypes' /\ BrowserTypes'
  BY <1>1 DEF DatabaseTypes, BrowserTypes, Send, dbVars, browserVars
<1>7. DecisionsChecked'
  BY <1>1, <1>4 DEF Send, TypeInv, DecisionsChecked, HandlerTypes
<1> QED
  BY <1>5, <1>6, <1>7, TypePartsNext

\* A handler's step that records nothing: it keeps or drops its form, and only
\* the check lets a form through.
QuietStep(r, label, code) ==
  /\ UNCHANGED << dbVars, browserVars >> /\ lock' \in {lock, r, NoRequest}
  /\ pc' = [pc EXCEPT ![r] = label] /\ response' = [response EXCEPT ![r] = code]
  /\ \/ /\ form' = form
        /\ label \in {"checked", "waiting", "updated"} => form[r].decision \in VALID_DECISIONS
     \/ form' = [form EXCEPT ![r] = NoForm] /\ label = "done"

LEMMA QuietStepKeepsTypes ==
  ASSUME TypeInv, NEW r \in Requests,
         NEW label \in {"checked", "waiting", "updated", "done"},
         NEW code \in {0, 303, 403, 409, 422, 500}, QuietStep(r, label, code)
  PROVE  TypeInv'
<1>1. DatabaseTypes /\ BrowserTypes /\ HandlerTypes
  BY TypeParts DEF TypeInv
<1>2. DatabaseTypes' /\ BrowserTypes'
  BY <1>1 DEF DatabaseTypes, BrowserTypes, QuietStep, dbVars, browserVars
<1>3. NoForm \in FormUpTo(issued)
  BY <1>1, EmptyForm, ReviewAssumption DEF BrowserTypes
<1>4. form' \in [Requests -> FormUpTo(issued)]
  BY <1>1, <1>3 DEF HandlerTypes, QuietStep
<1>5. HandlerTypes'
  BY <1>1, <1>4 DEF HandlerTypes, QuietStep, browserVars
<1>6. DecisionsChecked'
  BY <1>1 DEF TypeInv, DecisionsChecked, HandlerTypes, QuietStep
<1> QED
  BY <1>2, <1>5, <1>6, TypePartsNext

\* An answer, and the check of a row that is free, are such steps.
LEMMA AnswerKeepsTypes ==
  ASSUME TypeInv, NEW r \in Requests, NEW code \in {403, 409, 422, 500}, Answer(r, code),
         UNCHANGED << dbVars, browserVars, lock >>
  PROVE  TypeInv'
<1>1. code \in {0, 303, 403, 409, 422, 500} /\ QuietStep(r, "done", code)
  BY DEF Answer, QuietStep
<1> QED
  BY <1>1, QuietStepKeepsTypes

LEMMA GoOnKeepsTypes ==
  ASSUME TypeInv, NEW r \in Requests, UNCHANGED << dbVars, browserVars, form, response >>,
         lock' \in {lock, r},
         NEW label \in {"checked", "waiting", "updated"}, pc' = [pc EXCEPT ![r] = label],
         form[r].decision \in VALID_DECISIONS
  PROVE  TypeInv'
<1>1. PICK code \in {0, 303, 403, 409, 422, 500} : response[r] = code
  BY DEF TypeInv, TypeOK
<1>2. QuietStep(r, label, code)
  BY <1>1 DEF TypeInv, TypeOK, QuietStep
<1> QED
  BY <1>2, QuietStepKeepsTypes

LEMMA CheckKeepsTypes == ASSUME TypeInv, NEW r \in Requests, Check(r) PROVE TypeInv'
<1>1. UNCHANGED << dbVars, browserVars, lock >>
  BY DEF Check
<1>2. \/ \E code \in {403, 409, 422} : Answer(r, code)
      \/ /\ pc' = [pc EXCEPT ![r] = "checked"] /\ UNCHANGED << form, response >>
         /\ form[r].decision \in VALID_DECISIONS
  BY DEF Check
<1> QED
  BY <1>1, <1>2, AnswerKeepsTypes, GoOnKeepsTypes

LEMMA UpdateKeepsTypes ==
  ASSUME TypeInv, NEW r \in Requests, pc[r] \in {"checked", "waiting"}, Update(r),
         UNCHANGED << dbVars, browserVars >>
  PROVE  TypeInv'
<1>1. form[r].decision \in VALID_DECISIONS
  BY DEF TypeInv, DecisionsChecked
<1>2. CASE Answer(r, 409) /\ UNCHANGED lock
  BY <1>2, AnswerKeepsTypes
<1>3. CASE Answer(r, 500) /\ UNCHANGED lock
  BY <1>3, AnswerKeepsTypes
<1>4. CASE lock' = r /\ pc' = [pc EXCEPT ![r] = "updated"] /\ UNCHANGED << form, response >>
  BY <1>1, <1>4, GoOnKeepsTypes
<1> QED
  BY <1>2, <1>3, <1>4 DEF Update

LEMMA FinalizeKeepsTypes == ASSUME TypeInv, NEW r \in Requests, Finalize(r) PROVE TypeInv'
<1>1. UNCHANGED << dbVars, browserVars >> /\ pc[r] = "checked"
  BY DEF Finalize
<1>2. form[r].decision \in VALID_DECISIONS
  BY <1>1 DEF TypeInv, DecisionsChecked
<1>3. CASE pc' = [pc EXCEPT ![r] = "waiting"] /\ UNCHANGED << lock, form, response >>
  BY <1>1, <1>2, <1>3, GoOnKeepsTypes
<1> QED
  BY <1>1, <1>3, UpdateKeepsTypes DEF Finalize

LEMMA CommitKeepsTypes == ASSUME TypeInv, NEW r \in Requests, Commit(r) PROVE TypeInv'
<1> DEFINE label == IF response[r] = 0 THEN "committed" ELSE "done"
<1>1. DatabaseTypes /\ BrowserTypes /\ HandlerTypes
  BY TypeParts DEF TypeInv
<1>2. form[r].decision \in VALID_DECISIONS
  BY DEF Commit, TypeInv, DecisionsChecked
<1>3. Review(r) \in Records /\ Event(r) \in Records
  BY <1>2 DEF Review, Event, Records, Overridden
<1>4. DatabaseTypes'
  BY <1>1, <1>3 DEF DatabaseTypes, Commit
<1>5. BrowserTypes'
  BY <1>1 DEF BrowserTypes, Commit, browserVars
<1>6. NoForm \in FormUpTo(issued)
  BY <1>1, EmptyForm, ReviewAssumption DEF BrowserTypes
<1>7. /\ label \in {"committed", "done"} /\ pc' = [pc EXCEPT ![r] = label]
      /\ form' = [form EXCEPT ![r] = NoForm] /\ UNCHANGED << browserVars, response >>
  BY DEF Commit
<1> HIDE DEF label
<1>8. HandlerTypes'
  BY <1>1, <1>6, <1>7 DEF HandlerTypes, browserVars
<1>9. DecisionsChecked'
  BY <1>1, <1>7 DEF TypeInv, DecisionsChecked, HandlerTypes
<1> QED
  BY <1>4, <1>5, <1>8, <1>9, TypePartsNext

LEMMA RedirectKeepsTypes == ASSUME TypeInv, NEW r \in Requests, Redirect(r) PROVE TypeInv'
<1>1. DatabaseTypes /\ BrowserTypes /\ HandlerTypes
  BY TypeParts DEF TypeInv
<1>2. DatabaseTypes' /\ BrowserTypes'
  BY <1>1 DEF DatabaseTypes, BrowserTypes, Redirect, dbVars, browserVars
<1>3. HandlerTypes'
  BY <1>1 DEF HandlerTypes, Redirect, browserVars
<1>4. DecisionsChecked'
  BY <1>1 DEF TypeInv, DecisionsChecked, HandlerTypes, Redirect
<1> QED
  BY <1>2, <1>3, <1>4, TypePartsNext

LEMMA AbortKeepsTypes == ASSUME TypeInv, NEW r \in Requests, Abort(r) PROVE TypeInv'
<1>1. PICK code \in {0, 303, 403, 409, 422, 500} :
        code = IF response[r] = 0 THEN 500 ELSE response[r]
  BY DEF TypeInv, TypeOK
<1>2. QuietStep(r, "done", code)
  BY <1>1 DEF Abort, QuietStep
<1> QED
  BY <1>2, QuietStepKeepsTypes

LEMMA NextTypes == ASSUME TypeInv, [Next]_vars PROVE TypeInv'
<1>1. CASE UNCHANGED vars
  BY <1>1 DEF vars, dbVars, browserVars, TypeInv, TypeOK, DecisionsChecked
<1>2. CASE \E r \in Requests : Handle(r) \/ Abort(r)
  <2>1. \A r \in Requests : Resume(r) => TypeInv'
    BY UpdateKeepsTypes DEF Resume
  <2> QED
    BY <1>2, <2>1, CheckKeepsTypes, FinalizeKeepsTypes, CommitKeepsTypes,
       RedirectKeepsTypes, AbortKeepsTypes DEF Handle
<1> QED
  BY <1>1, <1>2, ReadCaseKeepsTypes, ReadReviewsKeepsTypes, ExpireKeepsTypes,
     SendKeepsTypes DEF Next

\* What every variable may hold: only valid decisions and only findings of this
\* case are ever recorded, and no token is ahead of those issued.
THEOREM TypesHold == Spec => []TypeOK
<1>1. TypeInv => TypeOK
  BY DEF TypeInv
<1> QED
  BY <1>1, InitTypeInv, NextTypes, PTL DEF Spec
=============================================================================
